---- MODULE Spec2Model ----
(***************************************************************************)
(* The finance store of financeX (src/src/store.ts): the entry ledger, the *)
(* credit facility resolver, the totals calculator and the bounded         *)
(* category / plan history series, with hydration from a persisted state.  *)
(*                                                                         *)
(* Text is a sequence of one-character strings, so that parsing, trimming, *)
(* lower-casing and substring search are computed as the code computes     *)
(* them.  A JavaScript number is an integer, Infinity, -Infinity or NaN    *)
(* here; every arithmetic result is rounded to Precision significant bits, *)
(* to nearest, ties to even, and overflows to an infinity from             *)
(* 2^MaxExponent on, as IEEE-754 rounds a binary64 result to 53 bits and   *)
(* overflows from 2^1024 on.  Timestamps are integers (milliseconds);      *)
(* toISOString() keeps their order.                                        *)
(***************************************************************************)
EXTENDS Integers, Sequences, FiniteSets, TLC

VARIABLES
  entries,          \* useFinanceStore.entries
  totals,           \* useFinanceStore.totals
  usdRate,          \* useFinanceStore.usdRate (raw text)
  snapshots,        \* useFinanceStore.snapshots
  categoryTotals,   \* useFinanceStore.categoryTotals
  categoryHistory,  \* useFinanceStore.categoryHistory
  planHistory,      \* useFinanceStore.planHistory
  now,              \* the wall clock read by new Date()
  nextId,           \* the identifiers generateId() has handed out so far
  lastOp,           \* the operation that ran last
  trail,            \* per category: every value recorded since the series was last replaced
  steps,            \* the operations run so far
  metaIn,           \* the argument of the last getCreditCardMeta call made directly
  metaOut,          \* and its result
  planning,         \* usePlanningStore: the input fields and the fixed expenses
  metrics,          \* usePlanningStore.metrics
  spending,         \* useExpenseStore.entries
  extraIncome,      \* useExtraIncomeStore.entries
  projections,      \* useProjectionStore.entries
  payIn,            \* the arguments of the last buildPaydayPlanSeries call, with today's date
  payOut,           \* and the series it returned
  persistenceReady, \* persistence.ts: let persistenceReady
  saveScheduled,    \* persistence.ts: let saveScheduled
  saveCall,         \* the last invoke('save_state', ...): the snapshot and its JSON text
  seen,             \* the stores as the listeners of the last operation read them, call by call
  loop,             \* buildPaydayPlanSeries run cycle by cycle: the locals of its while loop
  undoSnapshot,     \* Dashboard.tsx: the undoSnapshot state of the mounted component, <<>> for null
  removals,         \* the snapshots handleRemoveSnapshot removed, in the order of their removal
  microtasks,       \* the number of save microtasks queueMicrotask has queued and not run
  inFlight          \* the states given to invoke('save_state') that the backend has not answered

\* The stores beside the finance store, without the derived metrics.
ledgers == <<planning, spending, extraIncome, projections>>

vars == <<entries, totals, usdRate, snapshots, categoryTotals, categoryHistory,
          planHistory, now, nextId, lastOp, trail, steps, metaIn, metaOut,
          planning, metrics, spending, extraIncome, projections, payIn, payOut,
          persistenceReady, saveScheduled, saveCall, seen, loop, undoSnapshot, removals,
          microtasks, inFlight>>

\* The state of the persistence module, and what the listeners read.
listening == <<persistenceReady, saveScheduled, saveCall, seen>>

\* What only the specifications of single functions and components use.
undoing == <<undoSnapshot, removals>>
queue == <<microtasks, inFlight>>
apart == <<loop, undoSnapshot, removals, microtasks, inFlight>>

(***************************************************************************)
(* Bounds of the model.                                                    *)
(***************************************************************************)
Precision == 20
MaxEntries == 2
MaxSteps == 3
MaxSnapshots == 1
ChurnSteps == 205

(***************************************************************************)
(* Program constants.                                                      *)
(***************************************************************************)
MAX_CATEGORY_HISTORY == 200
MAX_PLAN_HISTORY == 400
QNB_LIMIT == 282000
AKBANK_LIMIT == 31700

\* The dotless i of the source's card type is written i.
ROW_TYPE_OPTIONS == <<"Borç", "Kredi Karti", "Alacak", "Nakit", "Kripto">>
UNIT_OPTIONS == <<"TL", "USD">>
CATEGORY_KEYS == <<"cards", "debts", "crypto", "assets">>

RowTypes == {ROW_TYPE_OPTIONS[i] : i \in 1..Len(ROW_TYPE_OPTIONS)}
Units == {UNIT_OPTIONS[i] : i \in 1..Len(UNIT_OPTIONS)}
CategoryKeys == {CATEGORY_KEYS[i] : i \in 1..Len(CATEGORY_KEYS)}

(***************************************************************************)
(* JavaScript numbers.                                                     *)
(***************************************************************************)
\* The exponent range: a magnitude of 2^MaxExponent or more is infinite.
MaxExponent == Precision + 4

\* The three numbers that are not finite.
Infinity == 2^30
NegInfinity == -Infinity
NotANumber == Infinity + 1

\* Number.isNaN, Number.isFinite
IsNaN(x) == x = NotANumber
IsFinite(x) == NegInfinity < x /\ x < Infinity

\* Math.abs, Math.max, unary minus
Negated(x) == IF IsNaN(x) THEN x ELSE -x
Abs(x) == IF x < 0 THEN -x ELSE x
Max(a, b) == IF IsNaN(a) \/ IsNaN(b) THEN NotANumber ELSE IF a >= b THEN a ELSE b

\* a === b, a > b and a >= b on numbers: false whenever one is NaN
StrictEquals(a, b) == ~IsNaN(a) /\ ~IsNaN(b) /\ a = b
Greater(a, b) == ~IsNaN(a) /\ ~IsNaN(b) /\ a > b
GreaterOrEqual(a, b) == ~IsNaN(a) /\ ~IsNaN(b) /\ a >= b

\* The number of significant bits of a magnitude.
BitLen(m) == CHOOSE n \in 0..30 : m < 2^n /\ (n = 0 \/ 2^(n-1) <= m)

\* The spacing of the representable numbers around a magnitude.
UnitOf(m) == 2^(IF BitLen(m) > Precision THEN BitLen(m) - Precision ELSE 0)

\* A magnitude rounded to a multiple of unit: to nearest, ties to even.
RoundTo(m, unit) ==
  LET q == m \div unit
      r == m % unit
  IN (IF 2 * r > unit \/ (2 * r = unit /\ q % 2 = 1) THEN q + 1 ELSE q) * unit

Overflowed(m) == IF m >= 2^MaxExponent THEN Infinity ELSE m

RoundMagnitude(m) == Overflowed(RoundTo(m, UnitOf(m)))

\* The one element of a set of one element.  An operator's argument is
\* evaluated where the operator uses it; an argument that is used often is
\* bound as the element of a set, which is evaluated once.
The(set) == CHOOSE value \in set : TRUE

\* An exact finite result rounded to Precision significant bits.
FlRound(x) == The({IF v < 0 THEN -The({RoundMagnitude(m) : m \in {-v}}) ELSE RoundMagnitude(v) : v \in {x}})

\* a + b
Sum(a, b) ==
  IF IsNaN(a) \/ IsNaN(b) THEN NotANumber
  ELSE IF IsFinite(a) /\ IsFinite(b) THEN FlRound(a + b)
  ELSE IF IsFinite(b) THEN a
  ELSE IF IsFinite(a) \/ a = b THEN b
  ELSE NotANumber

FlAdd(a, b) == The({Sum(x, y) : x \in {a}, y \in {b}})

\* a - b
FlSub(a, b) == FlAdd(a, Negated(b))

\* a * b
FlMul(a, b) ==
  IF IsNaN(a) \/ IsNaN(b) THEN NotANumber
  ELSE IF a = 0 \/ b = 0 THEN (IF IsFinite(a) /\ IsFinite(b) THEN 0 ELSE NotANumber)
  ELSE IF IsFinite(a) /\ IsFinite(b) /\ Abs(a) <= 2^MaxExponent \div Abs(b)
    THEN FlRound(a * b)
  ELSE IF (a < 0) = (b < 0) THEN Infinity
  ELSE NegInfinity

(***************************************************************************)
(* Text.                                                                   *)
(***************************************************************************)
UpperCase == <<"A","B","C","D","E","F","G","H","I","J","K","L","M",
               "N","O","P","Q","R","S","T","U","V","W","X","Y","Z">>
LowerCase == <<"a","b","c","d","e","f","g","h","i","j","k","l","m",
               "n","o","p","q","r","s","t","u","v","w","x","y","z">>
DigitChars == <<"0","1","2","3","4","5","6","7","8","9">>

IsSpace(c) == c = " "
IsDigit(c) == \E i \in 1..10 : DigitChars[i] = c
DigitValue(c) == (CHOOSE i \in 1..10 : DigitChars[i] = c) - 1

\* String.prototype.toLowerCase
LowerChar(c) ==
  IF \E i \in 1..26 : UpperCase[i] = c
  THEN LowerCase[CHOOSE i \in 1..26 : UpperCase[i] = c]
  ELSE c
ToLowerCase(s) == [i \in 1..Len(s) |-> LowerChar(s[i])]

\* String.prototype.trim
RECURSIVE TrimStart(_)
TrimStart(s) == IF s # <<>> /\ IsSpace(Head(s)) THEN TrimStart(Tail(s)) ELSE s
RECURSIVE TrimEnd(_)
TrimEnd(s) ==
  IF s # <<>> /\ IsSpace(s[Len(s)]) THEN TrimEnd(SubSeq(s, 1, Len(s) - 1)) ELSE s
Trim(s) == TrimEnd(TrimStart(s))

\* String.prototype.includes
Includes(s, sub) ==
  \E i \in 0..(Len(s) - Len(sub)) : SubSeq(s, i + 1, i + Len(sub)) = sub

\* value.replace(/\s/g, '')
StripWhitespace(s) == SelectSeq(s, LAMBDA c : ~IsSpace(c))

\* value.replace(',', '.'): the first comma only
RECURSIVE ReplaceFirstComma(_)
ReplaceFirstComma(s) ==
  IF s = <<>> THEN s
  ELSE IF Head(s) = "," THEN <<".">> \o Tail(s)
  ELSE <<Head(s)>> \o ReplaceFirstComma(Tail(s))

\* The longest prefix of digits, and what follows it.
RECURSIVE DigitPrefixLen(_)
DigitPrefixLen(s) ==
  IF s # <<>> /\ IsDigit(Head(s)) THEN 1 + DigitPrefixLen(Tail(s)) ELSE 0

\* The exact value of a run of digits, up to 2^MaxExponent.
RECURSIVE ExactDigits(_)
ExactDigits(s) ==
  IF s = <<>> THEN 0
  ELSE LET front == ExactDigits(SubSeq(s, 1, Len(s) - 1))
       IN IF front >= 2^MaxExponent THEN 2^MaxExponent
          ELSE 10 * front + DigitValue(s[Len(s)])

\* The number nearest to the value of a run of digits.
DigitsValue(s) == FlRound(ExactDigits(s))


\* The digits of a decimal literal that starts the text: nInt integer digits,
\* then a point and fraction digits or nothing.
FractionDigits(rest) ==
  IF rest # <<>> /\ Head(rest) = "." THEN DigitPrefixLen(Tail(rest)) ELSE 0

LiteralValue(body, nInt, negative) ==
  IF nInt = 0 /\ FractionDigits(SubSeq(body, nInt + 1, Len(body))) = 0 THEN NotANumber
  ELSE IF negative THEN -DigitsValue(SubSeq(body, 1, nInt))
  ELSE DigitsValue(SubSeq(body, 1, nInt))

UnsignedLiteral(body, negative) == LiteralValue(body, DigitPrefixLen(body), negative)

\* Number.parseFloat: an optional sign, then the longest decimal literal that
\* starts the text, and NaN when there is none.  The texts of this model carry
\* no exponent and only zero fraction digits, so the value is the integer part.
ParseFloat(s) ==
  IF s # <<>> /\ Head(s) \in {"+", "-"}
  THEN UnsignedLiteral(Tail(s), Head(s) = "-")
  ELSE UnsignedLiteral(s, FALSE)

\* Number.isFinite(parsed) ? parsed : 0
FiniteOrZero(parsed) == IF IsFinite(parsed) THEN parsed ELSE 0

parseAmount(value) ==
  IF value = <<>> THEN 0
  ELSE FiniteOrZero(ParseFloat(ReplaceFirstComma(StripWhitespace(value))))

\* The decimal text of a non-negative number.
RECURSIVE NumberText(_)
NumberText(n) ==
  IF n < 10 THEN <<DigitChars[n + 1]>>
  ELSE Append(NumberText(n \div 10), DigitChars[(n % 10) + 1])

(***************************************************************************)
(* Entries.                                                                *)
(***************************************************************************)
getUnitForType(type) == IF type = "Kripto" THEN "USD" ELSE "TL"

Has(record, key) == key \in DOMAIN record

\* { ...record, [key]: value }
SetField(record, key, value) ==
  [f \in DOMAIN record \cup {key} |-> IF f = key THEN value ELSE record[f]]

\* { ...base, ...overrides }
Spread(base, overrides) ==
  [f \in DOMAIN base \cup DOMAIN overrides |->
     IF f \in DOMAIN overrides THEN overrides[f] ELSE base[f]]

\* An entry kept with the unit it came with.
applyUnitForTypeKeepingUnit(entry) == entry

applyUnitForType(entry) ==
  LET expectedUnit == getUnitForType(entry.type)
  IN IF entry.unit = expectedUnit THEN entry ELSE SetField(entry, "unit", expectedUnit)

createEntry(id, overrides) ==
  Spread([id |-> id,
          name |-> <<>>,
          amount |-> <<>>,
          type |-> "Nakit",
          unit |-> getUnitForType(IF "type" \in DOMAIN overrides
                                  THEN overrides.type ELSE "Nakit"),
          creditLimit |-> <<>>],
         overrides)

(***************************************************************************)
(* Credit facility resolver.                                               *)
(***************************************************************************)
NullMeta == [null |-> TRUE]

KrediKartiText == <<"K","r","e","d","i"," ","K","a","r","t","i">>
QnbKey == <<"q","n","b">>
AkbankKey == <<"a","k","b","a","n","k">>
QnbIssuer == <<"Q","N","B">>
AkbankIssuer == <<"A","k","b","a","n","k">>

CreditMeta(issuer, limit, availableAmountTl) ==
  [null |-> FALSE,
   issuer |-> issuer,
   limit |-> limit,
   debt |-> Max(FlSub(limit, availableAmountTl), 0)]

\* The second tier: the lower-cased, trimmed name against the registry.
RegistryMeta(normalized, availableAmountTl) ==
  IF normalized = <<>> THEN NullMeta
  ELSE IF Includes(normalized, QnbKey)
    THEN CreditMeta(QnbIssuer, QNB_LIMIT, availableAmountTl)
  ELSE IF Includes(normalized, AkbankKey)
    THEN CreditMeta(AkbankIssuer, AKBANK_LIMIT, availableAmountTl)
  ELSE NullMeta

\* A resolution that asks the registry first.
ResolvedMetaRegistryFirst(entry, limitFromEntry, availableAmountTl) ==
  IF ~RegistryMeta(ToLowerCase(Trim(entry.name)), availableAmountTl).null
  THEN RegistryMeta(ToLowerCase(Trim(entry.name)), availableAmountTl)
  ELSE IF entry.type = "Kredi Karti" /\ limitFromEntry > 0
  THEN CreditMeta(IF entry.name # <<>> THEN entry.name ELSE KrediKartiText,
                  limitFromEntry, availableAmountTl)
  ELSE NullMeta

\* The first tier: the entry's own limit, for a credit card.
ResolvedMeta(entry, limitFromEntry, availableAmountTl) ==
  IF entry.type = "Kredi Karti" /\ limitFromEntry > 0
  THEN CreditMeta(IF entry.name # <<>> THEN entry.name ELSE KrediKartiText,
                  limitFromEntry, availableAmountTl)
  ELSE RegistryMeta(ToLowerCase(Trim(entry.name)), availableAmountTl)

getCreditCardMeta(entry, availableAmountTl) ==
  ResolvedMeta(entry,
               parseAmount(IF "creditLimit" \in DOMAIN entry
                           THEN entry.creditLimit ELSE <<>>),
               availableAmountTl)

(***************************************************************************)
(* Totals calculator.                                                      *)
(***************************************************************************)
\* amount * numericUsdRate for a USD entry under a positive rate, else amount
Converted(unit, amount, numericUsdRate) ==
  IF unit = "USD" /\ numericUsdRate > 0 THEN FlMul(amount, numericUsdRate) ELSE amount

\* amountInTl of autoCalculateTotals
AmountInTl(entry, numericUsdRate) ==
  Converted(entry.unit, parseAmount(entry.amount), numericUsdRate)

ZeroSums ==
  [debt |-> 0, assets |-> 0, cardDebt |-> 0, otherDebt |-> 0,
   cryptoAssets |-> 0, assetAndReceivables |-> 0]

\* debt += value and one of the two debt buckets += value
AddDebt(sums, bucket, value) ==
  [sums EXCEPT !.debt = FlAdd(@, value), ![bucket] = FlAdd(@, value)]

\* assets += value and one of the two asset buckets += value
AddAsset(sums, bucket, value) ==
  [sums EXCEPT !.assets = FlAdd(@, value), ![bucket] = FlAdd(@, value)]

\* A classification in which an unresolved card owes its amount.
ClassifiedOwingAmount(sums, type, amountInTl, creditCard) ==
  IF type \in {"Kredi Karti", "Borç"}
    THEN AddDebt(sums, IF type = "Borç" THEN "otherDebt" ELSE "cardDebt",
                 IF ~creditCard.null THEN creditCard.debt ELSE amountInTl)
  ELSE IF type \in {"Alacak", "Nakit", "Kripto"}
    THEN AddAsset(sums, IF type = "Kripto" THEN "cryptoAssets" ELSE "assetAndReceivables",
                  amountInTl)
  ELSE sums

\* The branches of entries.forEach in autoCalculateTotals.
Classified(sums, type, amountInTl, creditCard) ==
  IF type = "Kredi Karti"
    THEN AddDebt(sums, "cardDebt", IF ~creditCard.null THEN creditCard.debt ELSE 0)
  ELSE IF type = "Borç"
    THEN AddDebt(sums, "otherDebt",
                 IF ~creditCard.null THEN creditCard.debt ELSE amountInTl)
  ELSE IF type \in {"Alacak", "Nakit", "Kripto"}
    THEN AddAsset(sums, IF type = "Kripto" THEN "cryptoAssets" ELSE "assetAndReceivables",
                  amountInTl)
  ELSE sums

WithAmount(sums, entry, amountInTl) ==
  Classified(sums, entry.type, amountInTl, getCreditCardMeta(entry, amountInTl))

\* The body of entries.forEach in autoCalculateTotals.
AddEntryToSums(sums, entry, numericUsdRate) ==
  WithAmount(sums, entry, AmountInTl(entry, numericUsdRate))

RECURSIVE SumEntries(_, _, _)
SumEntries(es, numericUsdRate, sums) ==
  IF es = <<>> THEN sums
  ELSE SumEntries(Tail(es), numericUsdRate, AddEntryToSums(sums, Head(es), numericUsdRate))

(***************************************************************************)
(* History recorder.                                                       *)
(***************************************************************************)
Last(s) == s[Len(s)]

\* Number(x.toFixed(2)): x rounded to hundredths, of which a whole number and
\* the numbers that are not finite have none
ToFixed2(x) == The({IF IsFinite(v) THEN v - (v % 1) ELSE v : v \in {x}})

\* !lastPlanPoint || Math.abs(lastPlanPoint.value - currentNetWorth) >= 0.01
PlanPointDue(plan, currentNetWorth) ==
  plan = <<>> \/ GreaterOrEqual(Abs(FlSub(Last(plan).value, currentNetWorth)), 1)

\* push, then one shift when the bound is passed
PushPlanPoint(plan, currentNetWorth, id, nowIso) ==
  IF ~PlanPointDue(plan, currentNetWorth) THEN plan
  ELSE LET pushed == Append(plan, [id |-> id, capturedAt |-> nowIso,
                                   value |-> ToFixed2(currentNetWorth)])
       IN IF Len(pushed) > MAX_PLAN_HISTORY THEN Tail(pushed) ELSE pushed

\* !(lastPoint && lastPoint.value === value)
CategoryPointDue(history, value) ==
  ~(history # <<>> /\ StrictEquals(Last(history).value, value))

\* An append that keeps the oldest points when the bound is passed.
appendPointKeepingOldest(history, value, id, nowIso) ==
  IF ~CategoryPointDue(history, value) THEN history
  ELSE SubSeq(Append(history, [id |-> id, capturedAt |-> nowIso, value |-> value]),
              1, IF Len(history) < MAX_CATEGORY_HISTORY THEN Len(history) + 1
                 ELSE MAX_CATEGORY_HISTORY)

\* An append that puts the new point in front.
appendPointInFront(history, value, id, nowIso) ==
  IF ~CategoryPointDue(history, value) THEN history
  ELSE SubSeq(<<[id |-> id, capturedAt |-> nowIso, value |-> value]>> \o history,
              1, IF Len(history) < MAX_CATEGORY_HISTORY THEN Len(history) + 1
                 ELSE MAX_CATEGORY_HISTORY)

appendPoint(history, value, id, nowIso) ==
  IF ~CategoryPointDue(history, value) THEN history
  ELSE LET updated == Append(history, [id |-> id, capturedAt |-> nowIso, value |-> value])
       IN IF Len(updated) > MAX_CATEGORY_HISTORY
          THEN SubSeq(updated, Len(updated) - MAX_CATEGORY_HISTORY + 1, Len(updated))
          ELSE updated

\* A net worth that adds the debt instead of deducting it.
NetWorthAddingDebt(assets, debt) == FlAdd(assets, debt)

\* assets - debt
NetWorth(assets, debt) == FlSub(assets, debt)

\* The number of the first n category keys whose series get a point.
PointsDue(history, ct, n) ==
  Cardinality({j \in 1..n : CategoryPointDue(history[CATEGORY_KEYS[j]], ct[CATEGORY_KEYS[j]])})

KeyIndex(k) == CHOOSE i \in 1..Len(CATEGORY_KEYS) : CATEGORY_KEYS[i] = k

\* The set((state) => ...) of autoCalculateTotals: ids are generated for the
\* plan point first, then per category in the order of the keys.
Recorded(debt, assets, ct, history, plan, tr, id0, id1, nowIso) ==
  [totals |-> [debt |-> debt, assets |-> assets, netWorth |-> NetWorth(assets, debt)],
   categoryTotals |-> ct,
   categoryHistory |->
     [k \in CategoryKeys |->
        appendPoint(history[k], ct[k], id1 + PointsDue(history, ct, KeyIndex(k) - 1) + 1,
                    nowIso)],
   planHistory |-> PushPlanPoint(plan, NetWorth(assets, debt), id0 + 1, nowIso),
   trail |-> [k \in CategoryKeys |->
                IF CategoryPointDue(history[k], ct[k]) THEN Append(tr[k], ct[k]) ELSE tr[k]],
   nextId |-> id1 + PointsDue(history, ct, Len(CATEGORY_KEYS))]

FromSums(sums, history, plan, tr, id0, nowIso) ==
  Recorded(sums.debt, sums.assets,
           [cards |-> sums.cardDebt, debts |-> sums.otherDebt,
            crypto |-> sums.cryptoAssets, assets |-> sums.assetAndReceivables],
           history, plan, tr, id0,
           IF PlanPointDue(plan, NetWorth(sums.assets, sums.debt)) THEN id0 + 1 ELSE id0,
           nowIso)

\* The state autoCalculateTotals writes, from the state it reads.
Recalculated(es, rate, history, plan, tr, id0, nowIso) ==
  FromSums(SumEntries(es, parseAmount(rate), ZeroSums), history, plan, tr, id0, nowIso)

Written(r) ==
  /\ totals' = r.totals
  /\ categoryTotals' = r.categoryTotals
  /\ categoryHistory' = r.categoryHistory
  /\ planHistory' = r.planHistory
  /\ trail' = r.trail
  /\ nextId' = r.nextId

(***************************************************************************)
(* Planning metrics.  A tick of the clock is a day.  A quotient is kept to *)
(* the nearest whole number; a divisor that is not whole is the ratio      *)
(* num / den.                                                              *)
(***************************************************************************)
AVERAGE_WEEKS_PER_MONTH == [num |-> 108631, den |-> 25000]

\* 30.4375, the days of a month
DAYS_PER_MONTH == [num |-> 487, den |-> 16]

\* m * p divided by q, quotient and remainder, by doubling, so that no
\* intermediate value is larger than 3 * q
RECURSIVE MulDiv(_, _, _)
MulDiv(m, p, q) ==
  IF p = 0 THEN [quot |-> 0, rem |-> 0]
  ELSE The({LET extra == IF p % 2 = 1 THEN m ELSE 0
                total == 2 * half.rem + (extra % q)
            IN [quot |-> 2 * half.quot + (extra \div q) + (total \div q), rem |-> total % q] :
              half \in {MulDiv(m, p \div 2, q)}})

Nearest(d, q) ==
  d.quot + (IF 2 * d.rem > q \/ (2 * d.rem = q /\ d.quot % 2 = 1) THEN 1 ELSE 0)

\* a / (ratio.num / ratio.den) for a positive ratio
Quotient(a, num, den) ==
  IF ~IsFinite(a) THEN a
  ELSE IF a < 0 THEN -FlRound(The({Nearest(d, num) : d \in {MulDiv(-a, den, num)}}))
  ELSE FlRound(The({Nearest(d, num) : d \in {MulDiv(a, den, num)}}))

FlDivRatio(a, ratio) == The({Quotient(x, r.num, r.den) : x \in {a}, r \in {ratio}})

\* parsePositiveFloat: the parsed number, or null
null == NotANumber + 1

PositiveOrNull(parsed) == IF ~IsFinite(parsed) \/ parsed <= 0 THEN null ELSE parsed

parsePositiveFloat(value) ==
  IF value = <<>> THEN null
  ELSE PositiveOrNull(ParseFloat(ReplaceFirstComma(StripWhitespace(value))))

\* parsed ?? 4
OrFour(parsed) == IF parsed = null THEN 4 ELSE parsed

\* calculatePlanDurationMonths(...).months, as a ratio of whole numbers
calculatePlanDurationMonths(mode, durationValue, targetDateValue, nowTime) ==
  IF mode = "duration" THEN [num |-> OrFour(parsePositiveFloat(durationValue)), den |-> 1]
  ELSE IF ~targetDateValue.valid THEN [num |-> 4, den |-> 1]
  ELSE IF targetDateValue.time - nowTime > 0
    THEN [num |-> (targetDateValue.time - nowTime) * DAYS_PER_MONTH.den,
          den |-> DAYS_PER_MONTH.num]
  ELSE [num |-> 1, den |-> 1]

\* The text of a date: one that parses to a time, or one that does not.
DateText(t) == [valid |-> TRUE, time |-> t]
InvalidDateText == [valid |-> FALSE, time |-> 0]

\* null where the text of a date is expected
NullDateText == [valid |-> FALSE, time |-> null]

\* Math.round(months * 30.4375), halves rounded up
RoundedDays(months) ==
  MulDiv(months, DAYS_PER_MONTH.num, DAYS_PER_MONTH.den).quot
    + (IF 2 * MulDiv(months, DAYS_PER_MONTH.num, DAYS_PER_MONTH.den).rem >= DAYS_PER_MONTH.den
       THEN 1 ELSE 0)

\* calculatePlanDurationMonths(...).completionDateIso: the text of a date, or null
completionDateIso(mode, durationValue, targetDateValue, nowTime) ==
  IF mode = "duration"
    THEN DateText(nowTime + Max(RoundedDays(OrFour(parsePositiveFloat(durationValue))), 1))
  ELSE IF ~targetDateValue.valid THEN NullDateText
  ELSE DateText(targetDateValue.time)

\* expenses.reduce((sum, expense) => sum + parseAmount(expense.amount), 0)
RECURSIVE FixedTotal(_)
FixedTotal(expenses) ==
  IF expenses = <<>> THEN 0
  ELSE FlAdd(FixedTotal(SubSeq(expenses, 1, Len(expenses) - 1)),
             parseAmount(expenses[Len(expenses)].amount))

\* isWithinLastSevenDays
isWithinLastSevenDays(date, nowTime) == nowTime - date >= 0 /\ nowTime - date < 7

\* calculateWeeklySpend
RECURSIVE calculateWeeklySpend(_, _)
calculateWeeklySpend(list, nowTime) ==
  IF list = <<>> THEN 0
  ELSE FlAdd(calculateWeeklySpend(SubSeq(list, 1, Len(list) - 1), nowTime),
             IF isWithinLastSevenDays(list[Len(list)].date, nowTime)
             THEN parseAmount(list[Len(list)].amount) ELSE 0)

\* remainingGoalForPlan > 0 ? remainingGoalForPlan / planDurationMonths : 0, where
\* planDurationMonths > 0 always
MonthlySavingTargetIgnoringDuration(remainingGoalForPlan, months) ==
  IF Greater(remainingGoalForPlan, 0) THEN remainingGoalForPlan ELSE 0

MonthlySavingTarget(remainingGoalForPlan, months) ==
  IF Greater(remainingGoalForPlan, 0) THEN FlDivRatio(remainingGoalForPlan, months) ELSE 0

\* flexibleSpending < 0 ? Math.abs(flexibleSpending) : 0
MonthlyShortfallIgnored(flexibleSpending) == 0

MonthlyShortfall(flexibleSpending) ==
  IF Greater(0, flexibleSpending) THEN Abs(flexibleSpending) ELSE 0

\* The metrics record recalculate sets.  The ratios (progressToGoal,
\* weeklyProgress, shortfallRatio) are left out; recalculate adds
\* plannedCompletionDate.
MetricsRecord(goalValue, incomeValue, fixedTotal, months, netWorth, weeklySpend, monthlySavingTarget, flexibleSpending, monthlyShortfall) ==
  [goalValue |-> goalValue,
   incomeValue |-> incomeValue,
   fixedTotal |-> fixedTotal,
   monthlySavingTarget |-> monthlySavingTarget,
   flexibleSpending |-> flexibleSpending,
   weeklyLimit |-> FlDivRatio(Max(flexibleSpending, 0), AVERAGE_WEEKS_PER_MONTH),
   remainingGoal |-> FlSub(goalValue, netWorth),
   weeklySpend |-> weeklySpend,
   planDurationMonths |-> months,
   monthlyShortfall |-> monthlyShortfall,
   planFeasible |-> StrictEquals(monthlyShortfall, 0)]

WithFlexible(goalValue, incomeValue, fixedTotal, months, netWorth, weeklySpend, monthlySavingTarget, flexibleSpending) ==
  MetricsRecord(goalValue, incomeValue, fixedTotal, months, netWorth, weeklySpend,
                monthlySavingTarget, flexibleSpending, MonthlyShortfall(flexibleSpending))

WithTarget(goalValue, incomeValue, fixedTotal, months, netWorth, weeklySpend, monthlySavingTarget) ==
  WithFlexible(goalValue, incomeValue, fixedTotal, months, netWorth, weeklySpend,
               monthlySavingTarget,
               FlSub(FlSub(incomeValue, fixedTotal), monthlySavingTarget))

WithInputs(goalValue, incomeValue, fixedTotal, months, netWorth, weeklySpend) ==
  WithTarget(goalValue, incomeValue, fixedTotal, months, netWorth, weeklySpend,
             MonthlySavingTarget(Max(FlSub(goalValue, netWorth), 0), months))

\* usePlanningStore.recalculate: the metrics it sets, from the planning inputs,
\* the spending ledger, the finance store's net worth and the clock
recalculate(plan, spent, netWorth, nowTime) ==
  Spread(WithInputs(parseAmount(plan.goal), parseAmount(plan.monthlyIncome),
                    FixedTotal(plan.expenses),
                    calculatePlanDurationMonths(plan.targetMode, plan.targetDurationMonths,
                                                plan.targetDate, nowTime),
                    netWorth, calculateWeeklySpend(spent, nowTime)),
         [plannedCompletionDate |->
            completionDateIso(plan.targetMode, plan.targetDurationMonths,
                              plan.targetDate, nowTime)])

\* A recalculation of the totals that does not trigger that of the metrics.
autoCalculateTotalsAlone(es, rate, history, plan, tr, id0) ==
  /\ Written(Recalculated(es, rate, history, plan, tr, id0, now))
  /\ UNCHANGED metrics

\* get().autoCalculateTotals() at the end of an operation that leaves the
\* store with entries es, rate, history and plan; it ends with
\* triggerPlanningRecalculate().
autoCalculateTotals(es, rate, history, plan, tr, id0) ==
  /\ Written(Recalculated(es, rate, history, plan, tr, id0, now))
  /\ metrics' = recalculate(planning, spending, totals'.netWorth, now)

(***************************************************************************)
(* Sorting and list helpers.                                               *)
(***************************************************************************)
\* Array.prototype.sort by capturedAt, a stable sort: the points of the earliest
\* time in their order, then those of the next time, and so on.
RECURSIVE ConcatByTime(_, _)
ConcatByTime(s, times) ==
  IF times = {} THEN <<>>
  ELSE LET t == CHOOSE x \in times : \A y \in times : x <= y
       IN SelectSeq(s, LAMBDA p : p.capturedAt = t) \o ConcatByTime(s, times \ {t})

SortByCapturedAt(s) == ConcatByTime(s, {s[i].capturedAt : i \in 1..Len(s)})

\* findIndex: the 1-based index of the first entry with the id, 0 for none
FindIndex(es, id) ==
  IF \E i \in 1..Len(es) : es[i].id = id
  THEN CHOOSE i \in 1..Len(es) : es[i].id = id /\ \A j \in 1..(i - 1) : es[j].id # id
  ELSE 0

RemoveAt(s, i) == SubSeq(s, 1, i - 1) \o SubSeq(s, i + 1, Len(s))
InsertAt(s, i, x) == SubSeq(s, 1, i - 1) \o <<x>> \o SubSeq(s, i, Len(s))

Values(series) == [i \in 1..Len(series) |-> series[i].value]

(***************************************************************************)
(* Normalisation of persisted records.  A persisted capturedAt is a text   *)
(* that either parses to a time or does not.                               *)
(***************************************************************************)

\* normaliseCategoryPoint, the mapper of normalisePlanHistory, normaliseSnapshot
normalisePoint(point, id, nowTime) ==
  [id |-> IF "id" \in DOMAIN point THEN point.id ELSE id,
   capturedAt |-> IF "capturedAt" \in DOMAIN point /\ point.capturedAt.valid
                  THEN point.capturedAt.time ELSE nowTime,
   value |-> IF "value" \in DOMAIN point THEN point.value ELSE 0]

\* The ids generateId() hands out while the first n points of a list are mapped.
IdsUsed(list, n) == Cardinality({j \in 1..n : "id" \notin DOMAIN list[j]})

\* list.map(normalise).sort(by capturedAt), generating ids after id0
normaliseSeries(list, id0, nowTime) ==
  SortByCapturedAt([i \in 1..Len(list) |->
                      normalisePoint(list[i], id0 + IdsUsed(list, i - 1) + 1, nowTime)])

normaliseCategoryTotals(ct) ==
  [k \in CategoryKeys |-> IF k \in DOMAIN ct THEN ct[k] ELSE 0]

(***************************************************************************)
(* Operations of useFinanceStore.                                          *)
(***************************************************************************)
updateEntry(id, key, value) ==
  /\ entries' = [i \in 1..Len(entries) |->
                   IF entries[i].id # id THEN entries[i]
                   ELSE applyUnitForType(SetField(entries[i], key, value))]
  /\ autoCalculateTotals(entries', usdRate, categoryHistory, planHistory, trail, nextId)
  /\ lastOp' = "updateEntry"
  /\ UNCHANGED <<usdRate, snapshots, now, metaIn, metaOut, payIn, payOut, ledgers>>

addEntry(overrides) ==
  /\ entries' = Append(entries, applyUnitForType(createEntry(nextId + 1, overrides)))
  /\ autoCalculateTotals(entries', usdRate, categoryHistory, planHistory, trail, nextId + 1)
  /\ lastOp' = "addEntry"
  /\ UNCHANGED <<usdRate, snapshots, now, metaIn, metaOut, payIn, payOut, ledgers>>

removeEntry(id) ==
  /\ entries' = SelectSeq(entries, LAMBDA e : e.id # id)
  /\ autoCalculateTotals(entries', usdRate, categoryHistory, planHistory, trail, nextId)
  /\ lastOp' = "removeEntry"
  /\ UNCHANGED <<usdRate, snapshots, now, metaIn, metaOut, payIn, payOut, ledgers>>

Reordered(es, fromId, toId) ==
  LET fromIndex == FindIndex(es, fromId)
      toIndex == FindIndex(es, toId)
  IN IF fromIndex = 0 \/ toIndex = 0 \/ fromIndex = toIndex THEN es
     ELSE InsertAt(RemoveAt(es, fromIndex), toIndex, es[fromIndex])

reorderEntries(fromId, toId) ==
  /\ entries' = Reordered(entries, fromId, toId)
  /\ autoCalculateTotals(entries', usdRate, categoryHistory, planHistory, trail, nextId)
  /\ lastOp' = "reorderEntries"
  /\ UNCHANGED <<usdRate, snapshots, now, metaIn, metaOut, payIn, payOut, ledgers>>

setUsdRate(value) ==
  /\ usdRate' = value
  /\ autoCalculateTotals(entries, usdRate', categoryHistory, planHistory, trail, nextId)
  /\ lastOp' = "setUsdRate"
  /\ UNCHANGED <<entries, snapshots, now, metaIn, metaOut, payIn, payOut, ledgers>>

\* autoCalculateTotals called on its own, as at module load
recalculateTotals ==
  /\ autoCalculateTotals(entries, usdRate, categoryHistory, planHistory, trail, nextId)
  /\ lastOp' = "autoCalculateTotals"
  /\ UNCHANGED <<entries, usdRate, snapshots, now, metaIn, metaOut, payIn, payOut, ledgers>>

captureSnapshot ==
  /\ IsFinite(totals.netWorth)
  /\ snapshots' = SortByCapturedAt(Append(snapshots,
                     normalisePoint([value |-> totals.netWorth], nextId + 1, now)))
  /\ nextId' = nextId + 1
  /\ lastOp' = "captureSnapshot"
  /\ UNCHANGED <<entries, totals, usdRate, categoryTotals, categoryHistory, planHistory,
                 now, trail, metaIn, metaOut, payIn, payOut, ledgers, metrics>>

\* The text toISOString() gives for a time.
ToISOString(t) == [valid |-> TRUE, time |-> t]

\* A stored point as the record normalisePoint reads.
AsPartial(point) ==
  [id |-> point.id, capturedAt |-> ToISOString(point.capturedAt), value |-> point.value]

setSnapshots(list) ==
  /\ snapshots' = normaliseSeries(list, nextId, now)
  /\ nextId' = nextId + IdsUsed(list, Len(list))
  /\ lastOp' = "setSnapshots"
  /\ UNCHANGED <<entries, totals, usdRate, categoryTotals, categoryHistory, planHistory,
                 now, trail, metaIn, metaOut, payIn, payOut, ledgers, metrics>>

\* [...snapshots.filter((item) => item.id !== restored.id), restored].sort(...)
SnapshotsRestored(list, snapshot, id, nowTime) ==
  SortByCapturedAt(Append(SelectSeq(list, LAMBDA item : item.id # snapshot.id),
                          normalisePoint(AsPartial(snapshot), id, nowTime)))

restoreSnapshot(snapshot) ==
  /\ snapshots' = SnapshotsRestored(snapshots, snapshot, nextId, now)
  /\ lastOp' = "restoreSnapshot"
  /\ UNCHANGED <<entries, totals, usdRate, categoryTotals, categoryHistory, planHistory,
                 now, nextId, trail, metaIn, metaOut, payIn, payOut, ledgers, metrics>>

removeSnapshot(id) ==
  /\ snapshots' = SelectSeq(snapshots, LAMBDA p : p.id # id)
  /\ lastOp' = "removeSnapshot"
  /\ UNCHANGED <<entries, totals, usdRate, categoryTotals, categoryHistory, planHistory,
                 now, nextId, trail, metaIn, metaOut, payIn, payOut, ledgers, metrics>>

removeCategoryPoint(category, pointId) ==
  /\ categoryHistory' = [categoryHistory EXCEPT
                           ![category] = SelectSeq(@, LAMBDA p : p.id # pointId)]
  /\ trail' = [trail EXCEPT ![category] = Values(categoryHistory'[category])]
  /\ lastOp' = "removeCategoryPoint"
  /\ UNCHANGED <<entries, totals, usdRate, snapshots, categoryTotals, planHistory,
                 now, nextId, metaIn, metaOut, payIn, payOut, ledgers, metrics>>

clearCategoryHistory(category) ==
  /\ categoryHistory' = [categoryHistory EXCEPT ![category] = <<>>]
  /\ trail' = [trail EXCEPT ![category] = <<>>]
  /\ lastOp' = "clearCategoryHistory"
  /\ UNCHANGED <<entries, totals, usdRate, snapshots, categoryTotals, planHistory,
                 now, nextId, metaIn, metaOut, payIn, payOut, ledgers, metrics>>

(***************************************************************************)
(* Operations of usePlanningStore.                                         *)
(***************************************************************************)
createPlanningExpense(id) == [id |-> id, category |-> <<>>, amount |-> <<>>]

\* set({...}) followed by get().recalculate()
PlanningSet(next) ==
  /\ planning' = next
  /\ metrics' = recalculate(next, spending, totals.netWorth, now)

FinanceUnchanged ==
  UNCHANGED <<entries, totals, usdRate, snapshots, categoryTotals, categoryHistory,
              planHistory, trail, now, metaIn, metaOut, payIn, payOut>>

setGoal(value) ==
  /\ PlanningSet([planning EXCEPT !.goal = value])
  /\ lastOp' = "setGoal"
  /\ FinanceUnchanged /\ UNCHANGED <<nextId, spending, extraIncome, projections>>

setMonthlyIncome(value) ==
  /\ PlanningSet([planning EXCEPT !.monthlyIncome = value])
  /\ lastOp' = "setMonthlyIncome"
  /\ FinanceUnchanged /\ UNCHANGED <<nextId, spending, extraIncome, projections>>

\* Number.parseInt(value, 10): the digits that start the text, NaN for none
ParseInt(s) == IF DigitPrefixLen(s) = 0 THEN NotANumber
               ELSE DigitsValue(SubSeq(s, 1, DigitPrefixLen(s)))

ClampedDay(parsed) ==
  IF ~IsFinite(parsed) THEN 1 ELSE IF parsed < 1 THEN 1 ELSE IF parsed > 31 THEN 31 ELSE parsed

\* setMonthlyIncomeDay does not recalculate.
setMonthlyIncomeDay(value) ==
  /\ planning' = [planning EXCEPT !.monthlyIncomeDay = NumberText(ClampedDay(ParseInt(value)))]
  /\ lastOp' = "setMonthlyIncomeDay"
  /\ FinanceUnchanged /\ UNCHANGED <<nextId, metrics, spending, extraIncome, projections>>

setTargetMode(mode) ==
  /\ PlanningSet([planning EXCEPT !.targetMode = mode])
  /\ lastOp' = "setTargetMode"
  /\ FinanceUnchanged /\ UNCHANGED <<nextId, spending, extraIncome, projections>>

setTargetDurationMonths(value) ==
  /\ PlanningSet([planning EXCEPT !.targetDurationMonths = value])
  /\ lastOp' = "setTargetDurationMonths"
  /\ FinanceUnchanged /\ UNCHANGED <<nextId, spending, extraIncome, projections>>

setTargetDate(value) ==
  /\ PlanningSet([planning EXCEPT !.targetDate = value])
  /\ lastOp' = "setTargetDate"
  /\ FinanceUnchanged /\ UNCHANGED <<nextId, spending, extraIncome, projections>>

addFixedExpense ==
  /\ PlanningSet([planning EXCEPT
                    !.expenses = Append(@, createPlanningExpense(nextId + 1))])
  /\ nextId' = nextId + 1
  /\ lastOp' = "planning.addExpense"
  /\ FinanceUnchanged /\ UNCHANGED <<spending, extraIncome, projections>>

updateFixedExpense(id, key, value) ==
  /\ PlanningSet([planning EXCEPT
                    !.expenses = [i \in 1..Len(@) |->
                                    IF @[i].id = id THEN SetField(@[i], key, value)
                                    ELSE @[i]]])
  /\ lastOp' = "planning.updateExpense"
  /\ FinanceUnchanged /\ UNCHANGED <<nextId, spending, extraIncome, projections>>

\* The guard looks at the length of the list, then the filter runs.
FixedExpensesWithout(expenses, id) ==
  IF Len(expenses) = 1 THEN expenses ELSE SelectSeq(expenses, LAMBDA e : e.id # id)

removeFixedExpense(id) ==
  /\ PlanningSet([planning EXCEPT !.expenses = FixedExpensesWithout(@, id)])
  /\ lastOp' = "planning.removeExpense"
  /\ FinanceUnchanged /\ UNCHANGED <<nextId, spending, extraIncome, projections>>

\* usePlanningStore.getState().recalculate() called on its own
recalculatePlanning ==
  /\ metrics' = recalculate(planning, spending, totals.netWorth, now)
  /\ lastOp' = "recalculate"
  /\ FinanceUnchanged /\ UNCHANGED <<nextId, ledgers>>

(***************************************************************************)
(* The spending, extra income and projection ledgers.  A date is the day   *)
(* it names; a persisted date is a text that parses to a day or does not.  *)
(***************************************************************************)
\* The letters outside Latin-1 are written without their marks.
EXPENSE_CATEGORIES ==
  <<"Barinma", "Ulasim", "Yeme-Icme", "Eglence", "Saglik", "Fatura", "Diger">>

\* ensureIsoDate: today for a text that is empty or names no date
ensureIsoDate(value, nowTime) == IF value.valid THEN value.time ELSE nowTime

\* record.key ?? fallback
OrElse(record, key, fallback) == IF Has(record, key) THEN record[key] ELSE fallback

\* Array.prototype.sort, a stable sort, by the rank given for each index
Pick(list, ranks, r) ==
  LET at == SelectSeq([i \in 1..Len(list) |-> i], LAMBDA i : ranks[i] = r)
  IN [j \in 1..Len(at) |-> list[at[j]]]

RECURSIVE ConcatByRank(_, _, _)
ConcatByRank(list, ranks, values) ==
  IF values = {} THEN <<>>
  ELSE LET r == CHOOSE v \in values : \A w \in values : v <= w
       IN Pick(list, ranks, r) \o ConcatByRank(list, ranks, values \ {r})

StableSort(list, ranks) == ConcatByRank(list, ranks, {ranks[i] : i \in 1..Len(ranks)})

ByCreatedAtDescending(list) ==
  StableSort(list, [i \in 1..Len(list) |-> -list[i].createdAt])

\* a.date === b.date ? b.createdAt - a.createdAt : b.date.localeCompare(a.date)
SortNewestFirst(list) ==
  StableSort(ByCreatedAtDescending(list),
             [i \in 1..Len(list) |-> -ByCreatedAtDescending(list)[i].date])

\* a.expectedDate.localeCompare(b.expectedDate)
SortByExpectedDate(list) == StableSort(list, [i \in 1..Len(list) |-> list[i].expectedDate])

normaliseSpendingEntry(entry, id, nowTime) ==
  [id |-> OrElse(entry, "id", id),
   category |-> IF Has(entry, "category")
                   /\ \E i \in 1..Len(EXPENSE_CATEGORIES) : EXPENSE_CATEGORIES[i] = entry.category
                THEN entry.category ELSE "Diger",
   description |-> OrElse(entry, "description", <<>>),
   amount |-> OrElse(entry, "amount", <<>>),
   date |-> ensureIsoDate(OrElse(entry, "date", InvalidDateText), nowTime),
   createdAt |-> OrElse(entry, "createdAt", nowTime)]

normaliseExtraIncomeEntry(entry, id, nowTime) ==
  [id |-> OrElse(entry, "id", id),
   source |-> OrElse(entry, "source", <<>>),
   amount |-> OrElse(entry, "amount", <<>>),
   type |-> IF Has(entry, "type") /\ entry.type = "Tahmini" THEN "Tahmini" ELSE "Gerceklesen",
   date |-> ensureIsoDate(OrElse(entry, "date", InvalidDateText), nowTime),
   notes |-> OrElse(entry, "notes", <<>>),
   createdAt |-> OrElse(entry, "createdAt", nowTime)]

\* Math.min(Math.max(probability ?? 50, 0), 100)
ClampedProbability(x) ==
  IF IsNaN(x) THEN x ELSE IF x < 0 THEN 0 ELSE IF x > 100 THEN 100 ELSE x

normaliseProjectionEntry(entry, id, nowTime) ==
  [id |-> OrElse(entry, "id", id),
   source |-> OrElse(entry, "source", <<>>),
   amount |-> OrElse(entry, "amount", <<>>),
   expectedDate |-> ensureIsoDate(OrElse(entry, "expectedDate", InvalidDateText), nowTime),
   probability |-> ClampedProbability(OrElse(entry, "probability", 50)),
   note |-> OrElse(entry, "note", <<>>),
   createdAt |-> OrElse(entry, "createdAt", nowTime)]

\* entries.map(normalise...), generating ids after id0
NormalisedSpending(list, id0, nowTime) ==
  [i \in 1..Len(list) |-> normaliseSpendingEntry(list[i], id0 + IdsUsed(list, i - 1) + 1, nowTime)]

NormalisedExtraIncome(list, id0, nowTime) ==
  [i \in 1..Len(list) |->
     normaliseExtraIncomeEntry(list[i], id0 + IdsUsed(list, i - 1) + 1, nowTime)]

NormalisedProjections(list, id0, nowTime) ==
  [i \in 1..Len(list) |->
     normaliseProjectionEntry(list[i], id0 + IdsUsed(list, i - 1) + 1, nowTime)]

\* useExpenseStore.addExpense: createSpendingEntry, then [entry, ...entries].sort
addExpense(payload) ==
  /\ spending' = SortNewestFirst(
                    <<[id |-> nextId + 1, createdAt |-> now, category |-> payload.category,
                       description |-> payload.description, amount |-> payload.amount,
                       date |-> ensureIsoDate(payload.date, now)]>> \o spending)
  /\ nextId' = nextId + 1
  /\ metrics' = recalculate(planning, spending', totals.netWorth, now)
  /\ lastOp' = "addExpense"
  /\ FinanceUnchanged /\ UNCHANGED <<planning, extraIncome, projections>>

\* useExpenseStore.removeExpense
removeExpense(id) ==
  /\ spending' = SelectSeq(spending, LAMBDA e : e.id # id)
  /\ metrics' = recalculate(planning, spending', totals.netWorth, now)
  /\ lastOp' = "removeExpense"
  /\ FinanceUnchanged /\ UNCHANGED <<nextId, planning, extraIncome, projections>>

\* useExtraIncomeStore.addEntry
addExtraIncome(payload) ==
  /\ extraIncome' = SortNewestFirst(
                       <<[id |-> nextId + 1, createdAt |-> now, source |-> payload.source,
                          amount |-> payload.amount, type |-> payload.type,
                          date |-> ensureIsoDate(payload.date, now)]>> \o extraIncome)
  /\ nextId' = nextId + 1
  /\ lastOp' = "extraIncome.addEntry"
  /\ FinanceUnchanged /\ UNCHANGED <<planning, metrics, spending, projections>>

\* useExtraIncomeStore.removeEntry
removeExtraIncome(id) ==
  /\ extraIncome' = SelectSeq(extraIncome, LAMBDA e : e.id # id)
  /\ lastOp' = "extraIncome.removeEntry"
  /\ FinanceUnchanged /\ UNCHANGED <<nextId, planning, metrics, spending, projections>>

\* useProjectionStore.addProjection
addProjection(payload) ==
  /\ projections' = SortByExpectedDate(
                       <<normaliseProjectionEntry(payload, nextId + 1, now)>> \o projections)
  /\ nextId' = nextId + 1
  /\ lastOp' = "addProjection"
  /\ FinanceUnchanged /\ UNCHANGED <<planning, metrics, spending, extraIncome>>

\* useProjectionStore.removeProjection
removeProjection(id) ==
  /\ projections' = SelectSeq(projections, LAMBDA e : e.id # id)
  /\ lastOp' = "removeProjection"
  /\ FinanceUnchanged /\ UNCHANGED <<nextId, planning, metrics, spending, extraIncome>>

(***************************************************************************)
(* Hydration.  Every section of the persisted state, and every field of a  *)
(* section, may be absent.                                                 *)
(***************************************************************************)

\* The ids generated while the series of the first n category keys are normalised.
RECURSIVE IdsUsedByKeys(_, _)
IdsUsedByKeys(history, n) ==
  IF n = 0 THEN 0
  ELSE LET k == CATEGORY_KEYS[n]
           list == IF Has(history, k) THEN history[k] ELSE <<>>
       IN IdsUsedByKeys(history, n - 1) + IdsUsed(list, Len(list))

\* normaliseCategoryHistory
normaliseCategoryHistory(history, id0, nowTime) ==
  [k \in CategoryKeys |->
     LET i == CHOOSE n \in 1..Len(CATEGORY_KEYS) : CATEGORY_KEYS[n] = k
     IN normaliseSeries(IF Has(history, k) THEN history[k] ELSE <<>>,
                        id0 + IdsUsedByKeys(history, i - 1), nowTime)]

\* The updater of useFinanceStore.setState in hydrateFromPersistedState: the
\* fields it returns, and the ids generated on the way.
HydratedFinance(finance) ==
  LET id1 == nextId + (IF Has(finance, "snapshots")
                       THEN IdsUsed(finance.snapshots, Len(finance.snapshots)) ELSE 0)
      id2 == id1 + (IF Has(finance, "categoryHistory")
                    THEN IdsUsedByKeys(finance.categoryHistory, Len(CATEGORY_KEYS)) ELSE 0)
      id3 == id2 + (IF Has(finance, "planHistory")
                    THEN IdsUsed(finance.planHistory, Len(finance.planHistory)) ELSE 0)
      nextCategoryHistory ==
        IF Has(finance, "categoryHistory")
        THEN normaliseCategoryHistory(finance.categoryHistory, id1, now)
        ELSE categoryHistory
  IN [entries |->
        IF Has(finance, "entries")
        THEN [i \in 1..Len(finance.entries) |-> applyUnitForType(finance.entries[i])]
        ELSE [i \in 1..Len(entries) |-> applyUnitForType(entries[i])],
      usdRate |-> IF Has(finance, "usdRate") THEN finance.usdRate ELSE usdRate,
      snapshots |->
        IF Has(finance, "snapshots") THEN normaliseSeries(finance.snapshots, nextId, now)
        ELSE snapshots,
      categoryHistory |-> nextCategoryHistory,
      categoryTotals |->
        IF Has(finance, "categoryTotals") THEN normaliseCategoryTotals(finance.categoryTotals)
        ELSE categoryTotals,
      planHistory |->
        IF Has(finance, "planHistory") THEN normaliseSeries(finance.planHistory, id2, now)
        ELSE planHistory,
      trail |->
        IF Has(finance, "categoryHistory")
        THEN [k \in CategoryKeys |-> Values(nextCategoryHistory[k])]
        ELSE trail,
      nextId |-> id3]

\* The finance store after its section was read: the hydrated fields when
\* the section is present, the store as it is otherwise.
FinanceSection(persisted) ==
  IF Has(persisted, "finance") THEN HydratedFinance(persisted.finance)
  ELSE [entries |-> entries, usdRate |-> usdRate, snapshots |-> snapshots,
        categoryHistory |-> categoryHistory, categoryTotals |-> categoryTotals,
        planHistory |-> planHistory, trail |-> trail, nextId |-> nextId]

\* section.entries ?? []
EntriesOf(persisted, section) ==
  IF Has(persisted, section) THEN OrElse(persisted[section], "entries", <<>>) ELSE <<>>

\* The ids generated while the entries of a section are normalised.
SectionIds(persisted, section) ==
  IdsUsed(EntriesOf(persisted, section), Len(EntriesOf(persisted, section)))

\* planning.expenses && planning.expenses.length > 0
HasFixedExpenses(section) == Has(section, "expenses") /\ Len(section.expenses) > 0

\* The one id createPlanningExpense() takes when the section brings no expense.
BlankExpenseIds(persisted) ==
  IF Has(persisted, "planning") /\ ~HasFixedExpenses(persisted.planning) THEN 1 ELSE 0

\* The updater of usePlanningStore.setState in hydrateFromPersistedState; an
\* absent targetDate becomes the empty text, which names no date.
HydratedPlanning(section, id) ==
  [goal |-> OrElse(section, "goal", <<>>),
   monthlyIncome |-> OrElse(section, "monthlyIncome", <<>>),
   monthlyIncomeDay |-> OrElse(section, "monthlyIncomeDay", <<"1">>),
   expenses |-> IF HasFixedExpenses(section) THEN section.expenses
                ELSE <<createPlanningExpense(id)>>,
   targetMode |-> OrElse(section, "targetMode", "duration"),
   targetDurationMonths |-> OrElse(section, "targetDurationMonths", <<"4">>),
   targetDate |-> OrElse(section, "targetDate", InvalidDateText)]

\* The four other sections, each read when present; ids are generated after id0
\* in the order of the calls.
HydratedLedgers(persisted, id0, idPlanning, idExtra, idProjections) ==
  /\ spending' = IF Has(persisted, "expenses")
                 THEN SortNewestFirst(
                        NormalisedSpending(EntriesOf(persisted, "expenses"), id0, now))
                 ELSE spending
  /\ planning' = IF Has(persisted, "planning")
                 THEN HydratedPlanning(persisted.planning, idPlanning + 1)
                 ELSE planning
  /\ extraIncome' = IF Has(persisted, "extraIncome")
                    THEN SortNewestFirst(
                           NormalisedExtraIncome(EntriesOf(persisted, "extraIncome"),
                                                 idPlanning + BlankExpenseIds(persisted), now))
                    ELSE extraIncome
  /\ projections' = IF Has(persisted, "projections")
                    THEN SortByExpectedDate(
                           NormalisedProjections(EntriesOf(persisted, "projections"),
                                                 idProjections, now))
                    ELSE projections

HydratedFrom(persisted, f) ==
  /\ entries' = f.entries
  /\ usdRate' = f.usdRate
  /\ snapshots' = f.snapshots
  /\ HydratedLedgers(persisted, f.nextId,
                     f.nextId + SectionIds(persisted, "expenses"),
                     f.nextId + SectionIds(persisted, "expenses") + BlankExpenseIds(persisted),
                     f.nextId + SectionIds(persisted, "expenses") + BlankExpenseIds(persisted)
                       + SectionIds(persisted, "extraIncome"))
  /\ Written(Recalculated(f.entries, f.usdRate, f.categoryHistory, f.planHistory, f.trail,
                          f.nextId + SectionIds(persisted, "expenses")
                            + BlankExpenseIds(persisted)
                            + SectionIds(persisted, "extraIncome")
                            + SectionIds(persisted, "projections"),
                          now))
  /\ metrics' = recalculate(planning', spending', totals'.netWorth, now)

\* Each section, when present, replaces its store's fields; the call ends with
\* autoCalculateTotals, which overwrites the hydrated categoryTotals, and with
\* the planning store's recalculate.
hydrateFromPersistedState(persisted) ==
  /\ HydratedFrom(persisted, FinanceSection(persisted))
  /\ lastOp' = "hydrate"
  /\ UNCHANGED <<now, metaIn, metaOut, payIn, payOut>>

\* Time passes.
Tick ==
  /\ now' = now + 1
  /\ UNCHANGED <<entries, totals, usdRate, snapshots, categoryTotals, categoryHistory,
                 planHistory, nextId, lastOp, trail, metaIn, metaOut, payIn, payOut, ledgers, metrics>>

\* getCreditCardMeta called on its own, as the input panel calls it per row.
resolveCreditCardMeta ==
  /\ metaOut' = getCreditCardMeta(metaIn.entry, metaIn.availableAmountTl)
  /\ lastOp' = "getCreditCardMeta"
  /\ UNCHANGED <<entries, totals, usdRate, snapshots, categoryTotals, categoryHistory,
                 planHistory, now, nextId, trail, metaIn, payIn, payOut, ledgers, metrics>>

(***************************************************************************)
(* The payday projection.  A date is a calendar day of local time, its     *)
(* month counted from 0 as Date does.                                      *)
(***************************************************************************)
MAX_CYCLES == 240

MakeDate(year, month, day) == [year |-> year, month |-> month, day |-> day]

IsLeapYear(year) == year % 4 = 0 /\ (year % 100 # 0 \/ year % 400 = 0)

\* new Date(year, month + 1, 0).getDate()
DaysInMonth(year, month) ==
  IF month = 1 THEN (IF IsLeapYear(year) THEN 29 ELSE 28)
  ELSE IF month \in {3, 5, 8, 10} THEN 30
  ELSE 31

\* An Invalid Date, whose getTime() is NaN and which no comparison finds
\* smaller or larger than a date.
InvalidDate == MakeDate(NotANumber, 0, 1)
IsValidDate(date) == IsFinite(date.year)

\* a < b on dates that are valid
DateBefore(a, b) ==
  \/ a.year < b.year
  \/ a.year = b.year /\ a.month < b.month
  \/ a.year = b.year /\ a.month = b.month /\ a.day < b.day

\* getTime() / DAY_MS, up to a constant
RECURSIVE DaysBeforeMonth(_, _)
DaysBeforeMonth(year, month) ==
  IF month = 0 THEN 0 ELSE DaysBeforeMonth(year, month - 1) + DaysInMonth(year, month - 1)

DaysBeforeYear(year) ==
  365 * (year - 1) + ((year - 1) \div 4) - ((year - 1) \div 100) + ((year - 1) \div 400)

DayNumber(date) == DaysBeforeYear(date.year) + DaysBeforeMonth(date.year, date.month) + date.day

\* new Date(date.getTime() - DAY_MS)
PreviousDay(date) ==
  IF date.day > 1 THEN MakeDate(date.year, date.month, date.day - 1)
  ELSE IF date.month > 0
    THEN MakeDate(date.year, date.month - 1, DaysInMonth(date.year, date.month - 1))
  ELSE MakeDate(date.year - 1, 11, 31)

\* clampNumber
clampNumber(value) == IF IsFinite(value) THEN value ELSE 0

\* The days given to this model are whole, so Math.floor leaves them.
clampDayForMonth(year, month, day) ==
  IF ~IsFinite(day) THEN 1
  ELSE IF day < 1 THEN 1
  ELSE IF day > DaysInMonth(year, month) THEN DaysInMonth(year, month)
  ELSE day

\* A first occurrence that is never today: base.getDate() < clampCurrent.
FirstOccurrenceAfterToday(base, day) ==
  IF base.day < clampDayForMonth(base.year, base.month, day)
  THEN MakeDate(base.year, base.month, clampDayForMonth(base.year, base.month, day))
  ELSE IF base.month = 11
    THEN MakeDate(base.year + 1, 0, clampDayForMonth(base.year + 1, 0, day))
  ELSE MakeDate(base.year, base.month + 1, clampDayForMonth(base.year, base.month + 1, day))

\* The pay day of the current month when today is not past it, of the next
\* month otherwise.
FirstOccurrence(base, day) ==
  IF base.day <= clampDayForMonth(base.year, base.month, day)
  THEN MakeDate(base.year, base.month, clampDayForMonth(base.year, base.month, day))
  ELSE IF base.month = 11
    THEN MakeDate(base.year + 1, 0, clampDayForMonth(base.year + 1, 0, day))
  ELSE MakeDate(base.year, base.month + 1, clampDayForMonth(base.year, base.month + 1, day))

\* The month monthIndex months after January of the year, with the day clamped
\* to it once more; a mutation clamps the day of the first occurrence instead.
InMonth(year, monthIndex, day) ==
  MakeDate(year + (monthIndex \div 12), monthIndex % 12,
           clampDayForMonth(year + (monthIndex \div 12), monthIndex % 12, day))

LaterOccurrenceClampedOnce(first, day, offset) ==
  InMonth(first.year, first.month + (offset - 1), first.day)

LaterOccurrence(first, day, offset) ==
  InMonth(first.year, first.month + (offset - 1), day)

resolveIncomeDate(start, day, offset) ==
  IF offset <= 1 THEN FirstOccurrence(start, day)
  ELSE LaterOccurrence(FirstOccurrence(start, day), day, offset)

addMonths(date, months) == InMonth(date.year, date.month + months, date.day)

\* A point of the series; kind tells which push made it and is not a field of
\* the program's point, whose label is left out.
ProjectionPoint(date, baseline, kind) == [date |-> date, baseline |-> baseline, kind |-> kind]

\* Math.min(spendValue, (spendValue / totalCycleDays) * elapsedDays)
SpentSoFar(spendValue, totalCycleDays, elapsedDays) ==
  IF elapsedDays >= totalCycleDays THEN spendValue
  ELSE FlDivRatio(spendValue, [num |-> totalCycleDays, den |-> elapsedDays])

\* The point pushed when the next pay day is not before the end date.
PartialPoint(endDate, currentNet, spendValue, cycleStart, nextPayDay) ==
  ProjectionPoint(endDate,
    ToFixed2(FlSub(currentNet,
      SpentSoFar(spendValue,
                 IF DayNumber(nextPayDay) - DayNumber(cycleStart) < 1 THEN 1
                 ELSE DayNumber(nextPayDay) - DayNumber(cycleStart),
                 IF DayNumber(endDate) - DayNumber(cycleStart) < 0 THEN 0
                 ELSE DayNumber(endDate) - DayNumber(cycleStart)))),
    "end")

\* The points of a cycle with the pay day pushed first.
CyclePointsPayDayFirst(beforeIncomeNet, incomeValue, cycleStart, nextPayDay) ==
  <<ProjectionPoint(nextPayDay, ToFixed2(FlAdd(beforeIncomeNet, incomeValue)), "payDay")>>
  \o (IF DateBefore(cycleStart, PreviousDay(nextPayDay))
      THEN <<ProjectionPoint(PreviousDay(nextPayDay), ToFixed2(beforeIncomeNet), "beforeIncome")>>
      ELSE <<>>)

\* The points pushed by a cycle that ends before the end date.
CyclePoints(beforeIncomeNet, incomeValue, cycleStart, nextPayDay) ==
  (IF DateBefore(cycleStart, PreviousDay(nextPayDay))
   THEN <<ProjectionPoint(PreviousDay(nextPayDay), ToFixed2(beforeIncomeNet), "beforeIncome")>>
   ELSE <<>>)
  \o <<ProjectionPoint(nextPayDay, ToFixed2(FlAdd(beforeIncomeNet, incomeValue)), "payDay")>>

\* The while loop, one cycle per call.
RECURSIVE PaydayCycles(_, _, _, _, _, _, _, _, _, _)

CycleFrom(start, day, endDate, spendValue, incomeValue, maxCycles, currentNet, cycleStart, cycleIndex, points, nextPayDay) ==
  IF ~DateBefore(nextPayDay, endDate)
  THEN Append(points, PartialPoint(endDate, currentNet, spendValue, cycleStart, nextPayDay))
  ELSE PaydayCycles(start, day, endDate, spendValue, incomeValue, maxCycles,
                    FlAdd(FlSub(currentNet, spendValue), incomeValue),
                    nextPayDay, cycleIndex + 1,
                    points \o CyclePoints(FlSub(currentNet, spendValue), incomeValue,
                                          cycleStart, nextPayDay))

PaydayCycles(start, day, endDate, spendValue, incomeValue, maxCycles, currentNet, cycleStart, cycleIndex, points) ==
  IF ~(IsValidDate(endDate) /\ DateBefore(cycleStart, endDate) /\ cycleIndex <= maxCycles) THEN points
  ELSE CycleFrom(start, day, endDate, spendValue, incomeValue, maxCycles,
                 currentNet, cycleStart, cycleIndex, points,
                 resolveIncomeDate(start, day, cycleIndex))

\* Number.isFinite(incomeDay) && incomeDay >= 1 && incomeDay <= 31 ? Math.floor(incomeDay) : 1
IncomeDaySafe(incomeDay) ==
  IF IsFinite(incomeDay) /\ incomeDay >= 1 /\ incomeDay <= 31 THEN incomeDay ELSE 1

\* Math.max(1, Number.isFinite(monthsAhead) ? Math.ceil(monthsAhead) : 1)
MonthsPositive(monthsAhead) == IF IsFinite(monthsAhead) /\ monthsAhead > 1 THEN monthsAhead ELSE 1

\* The end date: the completion date when one is given and it is after today.
EndDate(start, monthsPositive, plannedCompletion) ==
  IF plannedCompletion.given
     /\ (~IsValidDate(plannedCompletion.date) \/ DateBefore(start, plannedCompletion.date))
  THEN plannedCompletion.date
  ELSE addMonths(start, monthsPositive)

NonNegative(x) == IF x < 0 THEN 0 ELSE x

buildPaydayPlanSeries(currentNetWorth, monthlyIncome, plannedMonthlySpend, monthsAhead, incomeDay, plannedCompletion, today) ==
  PaydayCycles(today, IncomeDaySafe(incomeDay),
               EndDate(today, MonthsPositive(monthsAhead), plannedCompletion),
               NonNegative(clampNumber(plannedMonthlySpend)),
               NonNegative(clampNumber(monthlyIncome)),
               IF MonthsPositive(monthsAhead) + 6 > MAX_CYCLES THEN MAX_CYCLES
               ELSE MonthsPositive(monthsAhead) + 6,
               clampNumber(currentNetWorth), today, 1,
               <<ProjectionPoint(today, ToFixed2(clampNumber(currentNetWorth)), "start")>>)

\* buildPaydayPlanSeries called as the input panel calls it.
projectPaydays ==
  /\ payOut' = buildPaydayPlanSeries(payIn.currentNetWorth, payIn.monthlyIncome,
                                     payIn.plannedMonthlySpend, payIn.monthsAhead,
                                     payIn.incomeDay, payIn.plannedCompletion, payIn.today)
  /\ lastOp' = "buildPaydayPlanSeries"
  /\ UNCHANGED <<entries, totals, usdRate, snapshots, categoryTotals, categoryHistory,
                 planHistory, now, nextId, trail, metaIn, metaOut, payIn, ledgers, metrics>>

\* monthsPositive + 6 without the cap of 240.
MaxCyclesUncapped(monthsPositive) == monthsPositive + 6

\* Math.min(240, monthsPositive + 6)
MaxCyclesOf(monthsPositive) ==
  IF monthsPositive + 6 > MAX_CYCLES THEN MAX_CYCLES ELSE monthsPositive + 6

\* buildPaydayPlanSeries up to its while loop: the locals and the first point.
startSeries ==
  /\ ~loop.running
  /\ payOut = <<>>
  /\ payOut' = <<ProjectionPoint(payIn.today, ToFixed2(clampNumber(payIn.currentNetWorth)), "start")>>
  /\ loop' = [running |-> TRUE,
              currentNet |-> clampNumber(payIn.currentNetWorth),
              cycleStart |-> payIn.today,
              cycleIndex |-> 1,
              incomeValue |-> NonNegative(clampNumber(payIn.monthlyIncome)),
              spendValue |-> NonNegative(clampNumber(payIn.plannedMonthlySpend)),
              incomeDaySafe |-> IncomeDaySafe(payIn.incomeDay),
              endDate |-> EndDate(payIn.today, MonthsPositive(payIn.monthsAhead),
                                  payIn.plannedCompletion),
              maxCycles |-> MaxCyclesOf(MonthsPositive(payIn.monthsAhead))]
  /\ lastOp' = "startSeries"
  /\ UNCHANGED <<entries, totals, usdRate, snapshots, categoryTotals, categoryHistory,
                 planHistory, now, nextId, trail, metaIn, metaOut, payIn, ledgers, metrics>>

\* The body of the while loop for the next pay day: the partial point and the
\* break, or the points of the cycle and the locals of the next one.
CycleBody(nextPayDay) ==
  IF ~DateBefore(nextPayDay, loop.endDate)
  THEN /\ payOut' = Append(payOut, PartialPoint(loop.endDate, loop.currentNet, loop.spendValue,
                                                loop.cycleStart, nextPayDay))
       /\ loop' = [loop EXCEPT !.running = FALSE]
       /\ lastOp' = "buildPaydayPlanSeries"
  ELSE /\ payOut' = payOut \o CyclePoints(FlSub(loop.currentNet, loop.spendValue),
                                          loop.incomeValue, loop.cycleStart, nextPayDay)
       /\ loop' = [loop EXCEPT !.currentNet = FlAdd(FlSub(loop.currentNet, loop.spendValue),
                                                    loop.incomeValue),
                               !.cycleStart = nextPayDay,
                               !.cycleIndex = loop.cycleIndex + 1]
       /\ lastOp' = "cycle"

\* One test of the while loop's condition, and one run of its body or the
\* return of the points.
cycle ==
  /\ loop.running
  /\ IF IsValidDate(loop.endDate) /\ DateBefore(loop.cycleStart, loop.endDate)
        /\ loop.cycleIndex <= loop.maxCycles
     THEN \E nextPayDay \in {resolveIncomeDate(payIn.today, loop.incomeDaySafe, loop.cycleIndex)} :
            CycleBody(nextPayDay)
     ELSE /\ loop' = [loop EXCEPT !.running = FALSE]
          /\ lastOp' = "buildPaydayPlanSeries"
          /\ UNCHANGED payOut
  /\ UNCHANGED <<entries, totals, usdRate, snapshots, categoryTotals, categoryHistory,
                 planHistory, now, nextId, trail, metaIn, metaOut, payIn, ledgers, metrics>>

(***************************************************************************)
(* Inputs.                                                                 *)
(***************************************************************************)
EmptyText == <<>>
Text100 == <<"1","0","0">>
TextMinus50 == <<"-","5","0">>
Text3000 == <<"3","0","0","0">>
Text10000 == <<"1","0","0","0","0">>
Text50000 == <<"5","0","0","0","0">>
Text2 == <<"2">>
Text0 == <<"0">>
TextMinus2 == <<"-","2">>
TextJunk == <<"x">>
NameQnbKredi == <<"Q","N","B"," ","K","r","e","d","i">>
NameAkbank == <<"m","y"," ","A","K","B","A","N","K">>
NameOther == <<"K","a","s","a">>
NameBlank == <<" ">>

\* The overrides the input panel passes to addEntry.
PanelOverrides ==
  { [type |-> "Nakit"],
    [type |-> "Borç"],
    [type |-> "Kredi Karti", unit |-> "TL", creditLimit |-> EmptyText],
    [type |-> "Kripto", unit |-> "USD"] }

RateTexts == {Text2, Text0, TextMinus2, TextJunk}

\* The (key, value) pairs handed to updateEntry.
EntryUpdates ==
  { <<"name", NameQnbKredi>>, <<"amount", Text100>>, <<"amount", TextMinus50>>,
    <<"type", "Kripto">>, <<"unit", "USD">>,
    <<"creditLimit", Text10000>> }

\* Persisted states handed to hydration.
PersistedWithoutFinance == [projections |-> [entries |-> <<>>]]

PersistedLedger ==
  [finance |->
     [entries |-> <<[id |-> 101, name |-> NameOther, amount |-> Text100,
                     type |-> "Kripto", unit |-> "TL"]>>,
      usdRate |-> Text2]]

PersistedHistory ==
  [finance |->
     [categoryTotals |-> [cards |-> 7],
      categoryHistory |->
        [cards |-> <<[id |-> 102, capturedAt |-> DateText(3), value |-> 5],
                     [value |-> 5]>>,
         assets |-> <<[id |-> 103, capturedAt |-> DateText(0), value |-> 0]>>],
      planHistory |-> <<[capturedAt |-> InvalidDateText, value |-> 9],
                        [id |-> 104, capturedAt |-> DateText(0), value |-> 0]>>,
      snapshots |-> <<[capturedAt |-> DateText(0), value |-> 4]>>]]

\* A ledger whose additions round: one large debt, then two cards owing 1 each.
PersistedRounding ==
  [finance |->
     [entries |-> <<[id |-> 111, name |-> NameOther, amount |-> NumberText(2^Precision),
                     type |-> "Borç", unit |-> "TL"],
                    [id |-> 112, name |-> NameOther, amount |-> EmptyText,
                     type |-> "Kredi Karti", unit |-> "TL", creditLimit |-> <<"1">>],
                    [id |-> 113, name |-> NameOther, amount |-> EmptyText,
                     type |-> "Kredi Karti", unit |-> "TL", creditLimit |-> <<"1">>]>>]]

\* A ledger whose conversion overflows: two crypto holdings, one of them negative.
PersistedOverflow ==
  [finance |->
     [entries |-> <<[id |-> 121, name |-> NameOther,
                     amount |-> NumberText(2^(MaxExponent - 1)),
                     type |-> "Kripto", unit |-> "USD"],
                    [id |-> 122, name |-> NameOther,
                     amount |-> <<"-">> \o NumberText(2^(MaxExponent - 1)),
                     type |-> "Kripto", unit |-> "USD"]>>,
      usdRate |-> Text2]]

\* The snapshot lists handed to setSnapshots, and the snapshots handed to
\* restoreSnapshot: one taken from a backup and those the store holds.
SnapshotLists ==
  { <<[capturedAt |-> DateText(0), value |-> 4], [id |-> 131, value |-> 6]>>,
    <<[id |-> 133, capturedAt |-> DateText(0), value |-> 4],
      [id |-> 134, capturedAt |-> DateText(0), value |-> 6]>> }
BackupSnapshot == [id |-> 132, capturedAt |-> 0, value |-> 8]
SnapshotsOf(list) == {list[i] : i \in 1..Len(list)}

\* Series longer than the store's bounds, as a hand-edited or foreign file holds.
PersistedLong ==
  [finance |->
     [categoryHistory |->
        [cards |-> [i \in 1..(MAX_CATEGORY_HISTORY + 1) |->
                      [id |-> 1000 + i, capturedAt |-> DateText(0), value |-> (i + 1) % 2]]],
      planHistory |-> [i \in 1..(MAX_PLAN_HISTORY + 2) |->
                         [id |-> 2000 + i, capturedAt |-> DateText(0), value |-> i % 2]]]]

PersistedStates ==
  {PersistedWithoutFinance, PersistedLedger, PersistedHistory, PersistedRounding,
   PersistedOverflow}

IdsOf(list) == {list[i].id : i \in 1..Len(list)}

\* The categories handed to removeCategoryPoint and clearCategoryHistory.
CategoriesTried == {"cards", "crypto"}

\* The point ids handed to removeCategoryPoint: the first two points, the last
\* one, and an id no point has.
PointIdsTried(series) ==
  {series[i].id : i \in {j \in {1, 2, Len(series)} : j >= 1 /\ j <= Len(series)}} \cup {0}

(***************************************************************************)
(* The store after construction: the initial fields of create(), then the  *)
(* autoCalculateTotals() call at module load.                              *)
(***************************************************************************)
EmptyCategoryHistory == [k \in CategoryKeys |-> <<>>]

InitialStore == Recalculated(<<>>, EmptyText, EmptyCategoryHistory, <<>>,
                             EmptyCategoryHistory, 0, 1)

\* The planning store as created; its one blank expense is created before any
\* other id is handed out.
InitialPlanning ==
  [goal |-> <<>>,
   monthlyIncome |-> <<>>,
   monthlyIncomeDay |-> <<"1">>,
   expenses |-> <<createPlanningExpense(-1)>>,
   targetMode |-> "duration",
   targetDurationMonths |-> <<"4">>,
   targetDate |-> InvalidDateText]

\* save_state has not been invoked.
NoSaveCall == [made |-> FALSE]

\* buildPaydayPlanSeries is not running.
NotLooping == [running |-> FALSE]

InitStore ==
  /\ entries = <<>>
  /\ usdRate = EmptyText
  /\ snapshots = <<>>
  /\ totals = InitialStore.totals
  /\ categoryTotals = InitialStore.categoryTotals
  /\ categoryHistory = InitialStore.categoryHistory
  /\ planHistory = InitialStore.planHistory
  /\ trail = InitialStore.trail
  /\ nextId = InitialStore.nextId
  /\ now = 1
  /\ lastOp = "init"
  /\ planning = InitialPlanning
  /\ metrics = recalculate(InitialPlanning, <<>>, InitialStore.totals.netWorth, 1)
  /\ spending = <<>>
  /\ extraIncome = <<>>
  /\ projections = <<>>
  /\ persistenceReady = FALSE
  /\ saveScheduled = FALSE
  /\ saveCall = NoSaveCall
  /\ seen = <<>>
  /\ loop = NotLooping
  /\ undoSnapshot = <<>>
  /\ removals = <<>>
  /\ microtasks = 0
  /\ inFlight = <<>>

NoCompletion == [given |-> FALSE, date |-> MakeDate(0, 0, 1)]

BlankPaydayInput ==
  [currentNetWorth |-> 0, monthlyIncome |-> 0, plannedMonthlySpend |-> 0, monthsAhead |-> 1,
   incomeDay |-> 1, plannedCompletion |-> NoCompletion, today |-> MakeDate(0, 0, 1)]

BlankMetaInput ==
  [entry |-> createEntry(0, [type |-> "Nakit"]), availableAmountTl |-> 0]

Init ==
  /\ InitStore
  /\ steps = 0
  /\ metaIn = BlankMetaInput
  /\ metaOut = NullMeta
  /\ payIn = BlankPaydayInput
  /\ payOut = <<>>

\* One more operation, while the bound allows it, on stores that have no
\* listener: initPersistence has not subscribed any.
Counted(bound) == steps < bound /\ steps' = steps + 1 /\ UNCHANGED <<listening, apart>>

Next ==
  \/ Counted(MaxSteps) /\ Len(entries) < MaxEntries /\ \E o \in PanelOverrides : addEntry(o)
  \/ Counted(MaxSteps) /\ \E id \in IdsOf(entries) \cup {0}, u \in EntryUpdates :
                             updateEntry(id, u[1], u[2])
  \/ Counted(MaxSteps) /\ \E id \in IdsOf(entries) \cup {0} : removeEntry(id)
  \/ Counted(MaxSteps) /\ \E fromId \in IdsOf(entries),
                             toId \in IdsOf(entries) \cup {0} :
                             reorderEntries(fromId, toId)
  \/ Counted(MaxSteps) /\ \E value \in RateTexts : setUsdRate(value)
  \/ Counted(MaxSteps) /\ recalculateTotals
  \/ Counted(MaxSteps) /\ \E k \in CategoriesTried :
                             \E id \in PointIdsTried(categoryHistory[k]) :
                                removeCategoryPoint(k, id)
  \/ Counted(MaxSteps) /\ \E k \in CategoriesTried : clearCategoryHistory(k)
  \/ Counted(MaxSteps) /\ \E p \in PersistedStates : hydrateFromPersistedState(p)
  \/ Counted(MaxSteps) /\ Tick

Spec == Init /\ [][Next]_vars

(***************************************************************************)
(* The net worth snapshots: every snapshot operation, and the operations   *)
(* that change the net worth a snapshot captures.                          *)
(***************************************************************************)
NextSnapshots ==
  \/ Counted(MaxSteps) /\ Len(snapshots) < MaxSnapshots /\ captureSnapshot
  \/ Counted(MaxSteps) /\ \E list \in SnapshotLists : setSnapshots(list)
  \/ Counted(MaxSteps) /\ \E snapshot \in SnapshotsOf(snapshots) \cup {BackupSnapshot} :
                             /\ Len(snapshots) < MaxSnapshots \/ snapshot.id \in IdsOf(snapshots)
                             /\ restoreSnapshot(snapshot)
  \/ Counted(MaxSteps) /\ \E id \in IdsOf(snapshots) \cup {0} : removeSnapshot(id)
  \/ Counted(MaxSteps) /\ \E p \in {PersistedLedger, PersistedHistory, PersistedOverflow} :
                             hydrateFromPersistedState(p)
  \/ Counted(MaxSteps) /\ Len(entries) < MaxEntries /\ \E o \in PanelOverrides : addEntry(o)
  \/ Counted(MaxSteps) /\ \E id \in IdsOf(entries) :
                             \E value \in {Text100, TextMinus50} :
                                updateEntry(id, "amount", value)
  \/ Counted(MaxSteps) /\ Tick

SpecSnapshots == Init /\ [][NextSnapshots]_vars

(***************************************************************************)
(* The undo of a snapshot's removal (src/src/Dashboard.tsx; the input      *)
(* panel has the same handlers).  One of the two components is mounted at  *)
(* a time, and its undoSnapshot state is lost when the tab is left.        *)
(***************************************************************************)
\* snapshots.find((item) => item.id === id), as a list of none or one
Matching(id) == SelectSeq(snapshots, LAMBDA item : item.id = id)

Found(id) == IF Matching(id) = <<>> THEN <<>> ELSE <<Head(Matching(id))>>

\* The handler leaves without a call of the store.
Ignored(op) ==
  /\ lastOp' = op
  /\ UNCHANGED <<entries, totals, usdRate, snapshots, categoryTotals, categoryHistory,
                 planHistory, now, nextId, trail, metaIn, metaOut, payIn, payOut, ledgers,
                 metrics, undoSnapshot, removals>>

\* A removal that keeps the snapshot the slot holds already.
handleRemoveSnapshotKeepingSlot(id) ==
  IF Found(id) = <<>> THEN Ignored("removeIgnored")
  ELSE /\ removeSnapshot(id)
       /\ undoSnapshot' = IF undoSnapshot = <<>> THEN Found(id) ELSE undoSnapshot
       /\ removals' = removals \o Found(id)

handleRemoveSnapshot(id) ==
  IF Found(id) = <<>> THEN Ignored("removeIgnored")
  ELSE /\ removeSnapshot(id)
       /\ undoSnapshot' = Found(id)
       /\ removals' = removals \o Found(id)

handleUndoRemove ==
  IF undoSnapshot = <<>> THEN Ignored("undoIgnored")
  ELSE /\ restoreSnapshot(undoSnapshot[1])
       /\ undoSnapshot' = <<>>
       /\ UNCHANGED removals

\* The callback of window.setTimeout(..., 5000) runs.
undoExpired ==
  /\ undoSnapshot # <<>>
  /\ undoSnapshot' = <<>>
  /\ lastOp' = "undoExpired"
  /\ UNCHANGED <<entries, totals, usdRate, snapshots, categoryTotals, categoryHistory,
                 planHistory, now, nextId, trail, metaIn, metaOut, payIn, payOut, ledgers,
                 metrics, removals>>

\* The tab is left and the component unmounted: the next one mounts with
\* useState(null).
leaveTab ==
  /\ undoSnapshot # <<>>
  /\ undoSnapshot' = <<>>
  /\ lastOp' = "leaveTab"
  /\ UNCHANGED <<entries, totals, usdRate, snapshots, categoryTotals, categoryHistory,
                 planHistory, now, nextId, trail, metaIn, metaOut, payIn, payOut, ledgers,
                 metrics, removals>>

UndoSteps == 5
UndoSnapshots == 3

\* Three snapshots of three days.
UndoList ==
  <<[id |-> 151, capturedAt |-> DateText(0), value |-> 4],
    [id |-> 152, capturedAt |-> DateText(1), value |-> 6],
    [id |-> 153, capturedAt |-> DateText(2), value |-> 8]>>

\* One more operation of the user on the mounted component.
Clicked(bound) == steps < bound /\ steps' = steps + 1 /\ UNCHANGED <<listening, loop, queue>>

NextUndo ==
  \/ Clicked(UndoSteps) /\ snapshots = <<>> /\ setSnapshots(UndoList) /\ UNCHANGED undoing
  \/ Clicked(UndoSteps) /\ Len(snapshots) < UndoSnapshots /\ captureSnapshot /\ UNCHANGED undoing
  \/ Clicked(UndoSteps) /\ \E id \in IdsOf(snapshots) \cup {0} : handleRemoveSnapshot(id)
  \/ Clicked(UndoSteps) /\ handleUndoRemove
  \/ undoExpired /\ UNCHANGED <<steps, listening, loop, queue>>
  \/ leaveTab /\ UNCHANGED <<steps, listening, loop, queue>>
  \/ now < 3 /\ Tick /\ UNCHANGED <<steps, listening, apart>>

SpecUndo == Init /\ [][NextUndo]_vars

(***************************************************************************)
(* The units of the entries: entries added with every pair of type and     *)
(* unit, retyped, given another unit, and hydrated with units that do not  *)
(* fit their types.                                                        *)
(***************************************************************************)
UnitOverrides ==
  {[type |-> t, unit |-> u] : t \in RowTypes, u \in Units}

PersistedUnits ==
  [finance |->
     [entries |-> <<[id |-> 141, name |-> NameOther, amount |-> Text100,
                     type |-> "Kripto", unit |-> "TL"],
                    [id |-> 142, name |-> NameOther, amount |-> Text100,
                     type |-> "Kredi Karti", unit |-> "USD", creditLimit |-> Text10000],
                    [id |-> 143, name |-> NameOther, amount |-> Text100,
                     type |-> "Nakit", unit |-> "USD"]>>]]

NextUnits ==
  \/ Counted(MaxSteps) /\ Len(entries) < MaxEntries /\ \E o \in UnitOverrides : addEntry(o)
  \/ Counted(MaxSteps) /\ \E id \in IdsOf(entries), t \in RowTypes :
                             updateEntry(id, "type", t)
  \/ Counted(MaxSteps) /\ \E id \in IdsOf(entries), u \in Units :
                             updateEntry(id, "unit", u)
  \/ Counted(MaxSteps) /\ \E id \in IdsOf(entries) : removeEntry(id)
  \/ Counted(MaxSteps) /\ hydrateFromPersistedState(PersistedUnits)

SpecUnits == Init /\ [][NextUnits]_vars

(***************************************************************************)
(* The store fed with series longer than its bounds: every operation, on   *)
(* few inputs, with hydration from PersistedLong.                          *)
(***************************************************************************)
CardOverrides == [type |-> "Kredi Karti", unit |-> "TL", creditLimit |-> Text100]

NextLong ==
  \/ Counted(MaxSteps) /\ hydrateFromPersistedState(PersistedLong)
  \/ Counted(MaxSteps) /\ Len(entries) < MaxEntries /\ addEntry(CardOverrides)
  \/ Counted(MaxSteps) /\ \E id \in IdsOf(entries) : updateEntry(id, "amount", Text2)
  \/ Counted(MaxSteps) /\ \E id \in IdsOf(entries) : removeEntry(id)
  \/ Counted(MaxSteps) /\ \E fromId \in IdsOf(entries), toId \in IdsOf(entries) :
                             reorderEntries(fromId, toId)
  \/ Counted(MaxSteps) /\ setUsdRate(Text2)
  \/ Counted(MaxSteps) /\ recalculateTotals
  \/ Counted(MaxSteps) /\ Len(snapshots) < MaxSnapshots /\ captureSnapshot
  \/ Counted(MaxSteps) /\ setSnapshots(<<[value |-> 4]>>)
  \/ Counted(MaxSteps) /\ \E snapshot \in SnapshotsOf(snapshots) : restoreSnapshot(snapshot)
  \/ Counted(MaxSteps) /\ \E id \in IdsOf(snapshots) : removeSnapshot(id)
  \/ Counted(MaxSteps) /\ \E id \in PointIdsTried(categoryHistory["cards"]) :
                             removeCategoryPoint("cards", id)
  \/ Counted(MaxSteps) /\ clearCategoryHistory("cards")
  \/ Counted(MaxSteps) /\ Tick

SpecLong == Init /\ [][NextLong]_vars

(***************************************************************************)
(* One cash entry whose amount changes at every step, while the clock      *)
(* advances once, at any moment.                                           *)
(***************************************************************************)
ChurnAmounts == {Text100, Text2}

NextChurn ==
  \/ Counted(ChurnSteps) /\ entries = <<>> /\ addEntry([type |-> "Nakit"])
  \/ Counted(ChurnSteps) /\ \E id \in IdsOf(entries), value \in ChurnAmounts :
                               /\ entries[FindIndex(entries, id)].amount # value
                               /\ updateEntry(id, "amount", value)
  \/ now = 1 /\ Tick /\ UNCHANGED <<steps, listening, apart>>

SpecChurn == Init /\ [][NextChurn]_vars

(***************************************************************************)
(* getCreditCardMeta applied to an entry and an available amount.          *)
(***************************************************************************)
NameBoth == <<"q","n","b"," ","a","k","b","a","n","k">>

MetaNames == {EmptyText, NameBlank, NameQnbKredi, NameAkbank, NameOther, NameBoth}
MetaLimits == {EmptyText, Text10000, Text0, TextMinus50}
MetaAvailable ==
  {0, parseAmount(Text3000), parseAmount(Text50000), parseAmount(TextMinus50),
   QNB_LIMIT + 1, Infinity}

MetaInputs ==
  { [entry |-> [id |-> 0, name |-> n, amount |-> EmptyText, type |-> t,
                unit |-> getUnitForType(t), creditLimit |-> l],
     availableAmountTl |-> a] :
      n \in MetaNames, t \in RowTypes, l \in MetaLimits, a \in MetaAvailable }

InitMeta ==
  /\ InitStore
  /\ steps = 0
  /\ metaIn \in MetaInputs
  /\ metaOut = NullMeta
  /\ payIn = BlankPaydayInput
  /\ payOut = <<>>

NextMeta == resolveCreditCardMeta /\ UNCHANGED <<steps, listening, apart>>

SpecMeta == InitMeta /\ [][NextMeta]_vars

(***************************************************************************)
(* The planning store and the spending ledger, with the hydrations and     *)
(* the ledger operations that set the net worth the metrics read.          *)
(***************************************************************************)
Text5 == <<"5">>
Text20000 == <<"2","0","0","0","0">>
Text30000 == <<"3","0","0","0","0">>
Text120000 == <<"1","2","0","0","0","0">>

\* A ledger and a plan: net worth 20000, goal 120000 in 5 months, income 30000
\* and one fixed expense of 10000.
PersistedPlan ==
  [finance |->
     [entries |-> <<[id |-> 201, name |-> NameOther, amount |-> Text20000,
                     type |-> "Nakit", unit |-> "TL"]>>],
   planning |->
     [goal |-> Text120000,
      monthlyIncome |-> Text30000,
      expenses |-> <<[id |-> 211, category |-> NameOther, amount |-> Text10000]>>,
      targetMode |-> "duration",
      targetDurationMonths |-> Text5]]

\* A plan whose two fixed expenses carry the same id.
PersistedTwins ==
  [planning |->
     [goal |-> Text100,
      expenses |-> <<[id |-> 221, category |-> NameOther, amount |-> Text100],
                     [id |-> 221, category |-> NameOther, amount |-> Text2]>>]]

\* A plan without expenses, and a spending ledger of two entries, one of them
\* without id, date and creation time.
PersistedSpending ==
  [planning |-> [monthlyIncome |-> Text100, expenses |-> <<>>],
   expenses |->
     [entries |-> <<[id |-> 231, category |-> "Fatura", description |-> NameOther,
                     amount |-> Text100, date |-> DateText(0), createdAt |-> 0],
                    [category |-> "Kira", amount |-> Text2]>>]]

PlanningPersisted == {PersistedPlan, PersistedTwins, PersistedSpending, PersistedOverflow}

GoalTexts == {Text120000, EmptyText}
IncomeTexts == {Text30000, Text100}
IncomeDayTexts == {<<"4","0">>, TextJunk}
DurationTexts == {Text5, Text0}
TargetDates == {DateText(488), DateText(12), DateText(0), InvalidDateText}
SpendingPayloads ==
  {[category |-> "Fatura", description |-> NameOther, amount |-> Text100,
    date |-> InvalidDateText]}

MaxFixedExpenses == 2
MaxSpending == 2

NextPlanning ==
  \/ Counted(MaxSteps) /\ \E value \in GoalTexts : setGoal(value)
  \/ Counted(MaxSteps) /\ \E value \in IncomeTexts : setMonthlyIncome(value)
  \/ Counted(MaxSteps) /\ \E value \in IncomeDayTexts : setMonthlyIncomeDay(value)
  \/ Counted(MaxSteps) /\ \E mode \in {"duration", "date"} : setTargetMode(mode)
  \/ Counted(MaxSteps) /\ \E value \in DurationTexts : setTargetDurationMonths(value)
  \/ Counted(MaxSteps) /\ \E value \in TargetDates : setTargetDate(value)
  \/ Counted(MaxSteps) /\ Len(planning.expenses) < MaxFixedExpenses /\ addFixedExpense
  \/ Counted(MaxSteps) /\ \E id \in IdsOf(planning.expenses) :
                             updateFixedExpense(id, "amount", Text10000)
  \/ Counted(MaxSteps) /\ \E id \in IdsOf(planning.expenses) \cup {0} :
                             removeFixedExpense(id)
  \/ Counted(MaxSteps) /\ Len(spending) < MaxSpending
                       /\ \E payload \in SpendingPayloads : addExpense(payload)
  \/ Counted(MaxSteps) /\ \E id \in IdsOf(spending) \cup {0} : removeExpense(id)
  \/ Counted(MaxSteps) /\ recalculatePlanning
  \/ Counted(MaxSteps) /\ \E p \in PlanningPersisted : hydrateFromPersistedState(p)
  \/ Counted(MaxSteps) /\ Len(entries) < MaxEntries /\ addEntry([type |-> "Nakit"])
  \/ Counted(MaxSteps) /\ \E id \in IdsOf(entries) : updateEntry(id, "amount", Text30000)
  \/ Counted(MaxSteps) /\ Tick

SpecPlanning == Init /\ [][NextPlanning]_vars

(***************************************************************************)
(* buildPaydayPlanSeries applied to a day, an income day and a horizon.    *)
(***************************************************************************)
FirstYear == 2023
LastYear == 2024
MaxMonthsAhead == 3

\* The income days setMonthlyIncomeDay can store.
IncomeDays == {1, 15, 29, 30, 31}

Todays ==
  {MakeDate(year, month, day) :
     year \in FirstYear..LastYear, month \in 0..11, day \in {1, 15, 28, 30, 31}}

Completions == {NoCompletion, [given |-> TRUE, date |-> MakeDate(LastYear, 6, 10)]}

PaydayInputs ==
  {[currentNetWorth |-> 20000, monthlyIncome |-> 30000, plannedMonthlySpend |-> 10000,
    monthsAhead |-> months, incomeDay |-> day, plannedCompletion |-> completion,
    today |-> today] :
     months \in 1..MaxMonthsAhead, day \in IncomeDays, completion \in Completions,
     today \in {t \in Todays : t.day <= DaysInMonth(t.year, t.month)}}

InitPayday ==
  /\ InitStore
  /\ steps = 0
  /\ metaIn = BlankMetaInput
  /\ metaOut = NullMeta
  /\ payIn \in PaydayInputs
  /\ payOut = <<>>

NextPayday == projectPaydays /\ UNCHANGED <<steps, listening, apart>>

SpecPayday == InitPayday /\ [][NextPayday]_vars

(***************************************************************************)
(* buildPaydayPlanSeries as the input panel calls it: the horizon and the  *)
(* completion date come from the planning metrics.                         *)
(***************************************************************************)
Epoch == MakeDate(2000, 0, 1)

\* The date n days after a date
RECURSIVE AddDays(_, _)
AddDays(date, n) ==
  IF date.month = 0 /\ date.day = 1 /\ n >= (IF IsLeapYear(date.year) THEN 366 ELSE 365)
    THEN AddDays(MakeDate(date.year + 1, 0, 1), n - (IF IsLeapYear(date.year) THEN 366 ELSE 365))
  ELSE IF date.day + n <= DaysInMonth(date.year, date.month)
    THEN MakeDate(date.year, date.month, date.day + n)
  ELSE AddDays(IF date.month = 11 THEN MakeDate(date.year + 1, 0, 1)
               ELSE MakeDate(date.year, date.month + 1, 1),
               n - (DaysInMonth(date.year, date.month) - date.day + 1))

\* new Date(planningMetrics.plannedCompletionDate), or null
plannedCompletionDate(iso) ==
  IF ~iso.valid THEN NoCompletion
  ELSE [given |-> TRUE, date |-> AddDays(Epoch, iso.time - DayNumber(Epoch))]

\* Math.ceil of a ratio of whole numbers
CeilRatio(ratio) == (ratio.num + ratio.den - 1) \div ratio.den

\* monthsFromDate of planMonthsAhead
MonthsFromDate(completion, today) ==
  IF completion.given /\ DayNumber(completion.date) - DayNumber(today) > 0
    THEN CeilRatio([num |-> (DayNumber(completion.date) - DayNumber(today)) * DAYS_PER_MONTH.den,
                    den |-> DAYS_PER_MONTH.num])
  ELSE 0

PANEL_MONTHS == 120

\* planMonthsAhead of the input panel
planMonthsAhead(planDurationMonths, completion, today) ==
  IF Max(CeilRatio(planDurationMonths), MonthsFromDate(completion, today)) <= 0 THEN 3
  ELSE IF Max(CeilRatio(planDurationMonths), MonthsFromDate(completion, today)) > PANEL_MONTHS
    THEN PANEL_MONTHS
  ELSE Max(CeilRatio(planDurationMonths), MonthsFromDate(completion, today))

\* The arguments planSeries passes for metrics with a duration and a
\* completion date.
planSeries(planDurationMonths, completion, incomeDay, today) ==
  [currentNetWorth |-> 20000, monthlyIncome |-> 30000, plannedMonthlySpend |-> 10000,
   monthsAhead |-> planMonthsAhead(planDurationMonths, completion, today),
   incomeDay |-> incomeDay, plannedCompletion |-> completion, today |-> today]

\* The arguments for a plan whose metrics were recalculated on a day.
PanelCall(plan, recalculated, incomeDay, today) ==
  planSeries(calculatePlanDurationMonths(plan.targetMode, plan.targetDurationMonths,
                                         plan.targetDate, recalculated),
             plannedCompletionDate(completionDateIso(plan.targetMode, plan.targetDurationMonths,
                                                     plan.targetDate, recalculated)),
             incomeDay, today)

Text130 == <<"1","3","0">>

PanelPlans ==
  {[targetMode |-> "duration", targetDurationMonths |-> months, targetDate |-> InvalidDateText] :
     months \in {Text5, Text0, Text2, Text130}}
  \cup {[targetMode |-> "date", targetDurationMonths |-> EmptyText, targetDate |-> date] :
          date \in {InvalidDateText, DateText(DayNumber(MakeDate(2023, 0, 12))),
                    DateText(DayNumber(MakeDate(2024, 5, 10))),
                    DateText(DayNumber(MakeDate(2035, 0, 1)))}}

PanelTodays ==
  {MakeDate(2023, 0, 1), MakeDate(2023, 0, 31), MakeDate(2023, 11, 15),
   MakeDate(2024, 1, 29), MakeDate(2024, 5, 9), MakeDate(2024, 5, 10)}

PanelIncomeDays == {1, 15, 31}

\* The days since the metrics were last recalculated.
PanelAges == {0, 1}

PanelInputs ==
  {PanelCall(plan, DayNumber(today) - age, day, today) :
     plan \in PanelPlans, today \in PanelTodays, day \in PanelIncomeDays, age \in PanelAges}

InitPanel ==
  /\ InitStore
  /\ steps = 0
  /\ metaIn = BlankMetaInput
  /\ metaOut = NullMeta
  /\ payIn \in PanelInputs
  /\ payOut = <<>>

NextSeries ==
  \/ startSeries /\ UNCHANGED <<steps, listening, undoing, queue>>
  \/ cycle /\ UNCHANGED <<steps, listening, undoing, queue>>

SpecPanel == InitPanel /\ [][NextSeries]_vars /\ WF_vars(NextSeries)

(***************************************************************************)
(* buildPaydayPlanSeries run cycle by cycle on arguments of every kind:    *)
(* horizons and income days that are not finite or not positive, and       *)
(* completion dates that are invalid, past or far.                         *)
(***************************************************************************)
SeriesHorizons == {NotANumber, Infinity, -3, 0, 1, 300}
SeriesIncomeDays == {NotANumber, 0, 31, 40}
SeriesCompletions ==
  {NoCompletion,
   [given |-> TRUE, date |-> InvalidDate],
   [given |-> TRUE, date |-> MakeDate(2020, 0, 1)],
   [given |-> TRUE, date |-> MakeDate(2060, 0, 1)]}
SeriesTodays == {MakeDate(2023, 0, 30), MakeDate(2024, 1, 29)}

SeriesInputs ==
  {[currentNetWorth |-> worth, monthlyIncome |-> 30000, plannedMonthlySpend |-> 10000,
    monthsAhead |-> months, incomeDay |-> day, plannedCompletion |-> completion,
    today |-> today] :
     worth \in {20000, NotANumber}, months \in SeriesHorizons, day \in SeriesIncomeDays,
     completion \in SeriesCompletions, today \in SeriesTodays}

InitSeries ==
  /\ InitStore
  /\ steps = 0
  /\ metaIn = BlankMetaInput
  /\ metaOut = NullMeta
  /\ payIn \in SeriesInputs
  /\ payOut = <<>>

SpecSeries == InitSeries /\ [][NextSeries]_vars /\ WF_vars(NextSeries)

(***************************************************************************)
(* Saving and loading: getPersistedState, and hydration from what it       *)
(* returned and from persisted states whose records lack fields.           *)
(***************************************************************************)
\* A stored series as it is persisted.
PersistedSeries(series) == [i \in 1..Len(series) |-> AsPartial(series[i])]

\* A stored list whose records carry a day under the key, as it is persisted.
WithDateText(list, key) ==
  [i \in 1..Len(list) |-> [list[i] EXCEPT ![key] = DateText(@)]]

getPersistedState ==
  [finance |->
     [entries |-> entries,
      usdRate |-> usdRate,
      snapshots |-> PersistedSeries(snapshots),
      categoryTotals |-> categoryTotals,
      categoryHistory |-> [k \in CategoryKeys |-> PersistedSeries(categoryHistory[k])],
      planHistory |-> PersistedSeries(planHistory)],
   planning |-> planning,
   expenses |-> [entries |-> WithDateText(spending, "date")],
   extraIncome |-> [entries |-> WithDateText(extraIncome, "date")],
   projections |-> [entries |-> WithDateText(projections, "expectedDate")]]

\* Ledgers whose records arrive without an id.
PersistedBare ==
  [finance |->
     [entries |-> <<[name |-> NameOther, amount |-> Text100, type |-> "Nakit",
                     unit |-> "TL"]>>,
      snapshots |-> <<[value |-> 5]>>,
      categoryHistory |-> [cards |-> <<[value |-> 3]>>],
      planHistory |-> <<[value |-> 4, capturedAt |-> DateText(0)]>>],
   expenses |-> [entries |-> <<[category |-> "Fatura", amount |-> Text2]>>],
   extraIncome |-> [entries |-> <<[source |-> NameOther, amount |-> Text2]>>],
   projections |-> [entries |-> <<[source |-> NameOther, amount |-> Text2]>>]]

\* Sections without their entries.
PersistedSections ==
  [expenses |-> [e \in {} |-> 0],
   extraIncome |-> [e \in {} |-> 0],
   projections |-> [e \in {} |-> 0]]

\* Ledgers that each hold two records of one day, the older one first.
PersistedSameDay ==
  [expenses |->
     [entries |-> <<[id |-> 241, category |-> "Fatura", amount |-> Text2,
                     date |-> DateText(0), createdAt |-> 0],
                    [id |-> 242, category |-> "Fatura", amount |-> Text2,
                     date |-> DateText(0), createdAt |-> 1]>>],
   extraIncome |->
     [entries |-> <<[id |-> 243, source |-> NameOther, amount |-> Text2,
                     date |-> DateText(0), createdAt |-> 0],
                    [id |-> 244, source |-> NameOther, amount |-> Text2,
                     date |-> DateText(0), createdAt |-> 1]>>],
   projections |->
     [entries |-> <<[id |-> 245, source |-> NameOther, amount |-> Text2,
                     expectedDate |-> DateText(0), createdAt |-> 0],
                    [id |-> 246, source |-> NameOther, amount |-> Text2,
                     expectedDate |-> DateText(0), createdAt |-> 1]>>]]

LoadedStates == {PersistedBare, PersistedSections, PersistedPlan, PersistedSameDay}

IncomePayloads ==
  {[source |-> NameOther, amount |-> Text100, type |-> "Tahmini", date |-> DateText(0)]}

ProjectionPayloads ==
  {[source |-> NameOther, amount |-> Text100, expectedDate |-> InvalidDateText,
    probability |-> 120]}

MaxIncome == 2

NextPersistence ==
  \/ Counted(MaxSteps) /\ \E p \in LoadedStates : hydrateFromPersistedState(p)
  \/ Counted(MaxSteps) /\ hydrateFromPersistedState(getPersistedState)
  \/ Counted(MaxSteps) /\ \E k \in CategoriesTried : clearCategoryHistory(k)
  \/ Counted(MaxSteps) /\ \E k \in CategoriesTried :
                             \E id \in PointIdsTried(categoryHistory[k]) :
                                removeCategoryPoint(k, id)
  \/ Counted(MaxSteps) /\ \E value \in RateTexts : setUsdRate(value)
  \/ Counted(MaxSteps) /\ \E value \in GoalTexts : setGoal(value)
  \/ Counted(MaxSteps) /\ Len(spending) < MaxSpending
                       /\ \E payload \in SpendingPayloads : addExpense(payload)
  \/ Counted(MaxSteps) /\ Len(extraIncome) < MaxIncome
                       /\ \E payload \in IncomePayloads : addExtraIncome(payload)
  \/ Counted(MaxSteps) /\ \E id \in IdsOf(extraIncome) \cup {0} : removeExtraIncome(id)
  \/ Counted(MaxSteps) /\ Len(projections) < MaxIncome
                       /\ \E payload \in ProjectionPayloads : addProjection(payload)
  \/ Counted(MaxSteps) /\ \E id \in IdsOf(projections) \cup {0} : removeProjection(id)
  \/ Counted(MaxSteps) /\ Tick

SpecPersistence == Init /\ [][NextPersistence]_vars

(***************************************************************************)
(* Listeners and saving (src/src/persistence.ts).  A set() of a store      *)
(* calls the listeners of that store before it returns, and a listener     *)
(* reads the stores with getState().  initPersistence hydrates the stores, *)
(* subscribes scheduleSave and marks persistence ready before the first    *)
(* component is rendered; the application runs under Tauri.  The microtask *)
(* scheduleSave queues runs once the operation in progress has returned.   *)
(***************************************************************************)
\* The finance store and the metrics as getState() returns them.
StoreView(es, rate, tot, ct, met) ==
  [entries |-> es, usdRate |-> rate, totals |-> tot, categoryTotals |-> ct, metrics |-> met]

\* set({entries}) or set({usdRate}), then get().autoCalculateTotals(): the set
\* of the operation, the set of autoCalculateTotals, the set of recalculate.
CascadeViews ==
  <<StoreView(entries', usdRate', totals, categoryTotals, metrics),
    StoreView(entries', usdRate', totals', categoryTotals', metrics),
    StoreView(entries', usdRate', totals', categoryTotals', metrics')>>

\* A set() of the planning inputs or of the spending ledger, then the set of
\* recalculate.
RecalculateViews ==
  <<StoreView(entries, usdRate, totals, categoryTotals, metrics),
    StoreView(entries, usdRate, totals, categoryTotals, metrics')>>

\* A set() that nothing follows.
SetViews == <<StoreView(entries, usdRate, totals, categoryTotals, metrics)>>

\* JSON.stringify writes null for a number that is not finite.
JsonNumber(x) == IF IsFinite(x) THEN x ELSE null

JsonPoints(series) == [i \in 1..Len(series) |-> [series[i] EXCEPT !.value = JsonNumber(@)]]

Stringify(snapshot) ==
  [snapshot EXCEPT
     !.finance.categoryTotals = [k \in CategoryKeys |-> JsonNumber(@[k])],
     !.finance.categoryHistory = [k \in CategoryKeys |-> JsonPoints(@[k])],
     !.finance.planHistory = JsonPoints(@),
     !.finance.snapshots = JsonPoints(@),
     !.projections.entries =
        [i \in 1..Len(@) |-> [@[i] EXCEPT !.probability = JsonNumber(@)]]]

scheduleSave ==
  /\ saveScheduled' = (saveScheduled \/ persistenceReady)
  /\ UNCHANGED <<persistenceReady, saveCall>>

\* A listener that saves when it is called: the snapshot holds what the first
\* set() of the operation wrote, and nothing of what follows it.
SubscribedSavingAtOnce(views) ==
  /\ seen' = views
  /\ saveCall' =
       IF ~persistenceReady THEN saveCall
       ELSE [made |-> TRUE,
             snapshot |-> [getPersistedState EXCEPT !.finance.entries = entries',
                                                    !.finance.usdRate = usdRate'],
             state |-> Stringify([getPersistedState EXCEPT !.finance.entries = entries',
                                                           !.finance.usdRate = usdRate'])]
  /\ UNCHANGED <<persistenceReady, saveScheduled>>

\* An operation of a store setupSubscriptions subscribes to: the finance, the
\* planning, the expense and the extra income store.
Subscribed(views) == seen' = views /\ scheduleSave

\* An operation of the projection store, which setupSubscriptions leaves out.
NotSubscribed(views) == seen' = views /\ UNCHANGED <<persistenceReady, saveScheduled, saveCall>>

\* The microtask: saveScheduled = false, then persistState().
persistState ==
  /\ saveScheduled
  /\ saveScheduled' = FALSE
  /\ saveCall' = [made |-> TRUE, snapshot |-> getPersistedState,
                  state |-> Stringify(getPersistedState)]
  /\ UNCHANGED <<entries, totals, usdRate, snapshots, categoryTotals, categoryHistory,
                 planHistory, now, nextId, lastOp, trail, metaIn, metaOut, ledgers, metrics,
                 payIn, payOut, persistenceReady, seen>>

\* What load_state returned: nothing, or a state that parses.
NothingStored == [given |-> FALSE]
Stored(parsed) == [given |-> TRUE, parsed |-> parsed]

initPersistence(rawState) ==
  /\ ~persistenceReady
  /\ IF rawState.given THEN hydrateFromPersistedState(rawState.parsed)
     ELSE UNCHANGED <<entries, totals, usdRate, snapshots, categoryTotals, categoryHistory,
                      planHistory, now, nextId, lastOp, trail, metaIn, metaOut, ledgers,
                      metrics, payIn, payOut>>
  /\ persistenceReady' = TRUE
  /\ saveScheduled' = TRUE
  /\ UNCHANGED <<saveCall, seen>>

\* One more operation of the user, who acts on the rendered application.
Acted(bound) == persistenceReady /\ steps < bound /\ steps' = steps + 1 /\ UNCHANGED apart

RawStates == {NothingStored, Stored(PersistedPlan)}

\* The queued microtask runs; it is no operation of the user.
Microtask == persistState /\ UNCHANGED <<steps, apart>>

NextSaving ==
  \/ \E rawState \in RawStates : initPersistence(rawState) /\ UNCHANGED <<steps, apart>>
  \/ Microtask
  \/ Acted(MaxSteps) /\ Len(entries) < MaxEntries
                     /\ addEntry([type |-> "Nakit"]) /\ Subscribed(CascadeViews)
  \/ Acted(MaxSteps) /\ \E id \in IdsOf(entries), value \in {Text100, Text20000} :
                           updateEntry(id, "amount", value) /\ Subscribed(CascadeViews)
  \/ Acted(MaxSteps) /\ \E id \in IdsOf(entries) : removeEntry(id) /\ Subscribed(CascadeViews)
  \/ Acted(MaxSteps) /\ setUsdRate(Text2) /\ Subscribed(CascadeViews)
  \/ Acted(MaxSteps) /\ \E value \in GoalTexts : setGoal(value) /\ Subscribed(RecalculateViews)
  \/ Acted(MaxSteps) /\ Len(spending) < MaxSpending
                     /\ \E payload \in SpendingPayloads :
                           addExpense(payload) /\ Subscribed(RecalculateViews)
  \/ Acted(MaxSteps) /\ Len(extraIncome) < MaxIncome
                     /\ \E payload \in IncomePayloads :
                           addExtraIncome(payload) /\ Subscribed(SetViews)
  \/ Acted(MaxSteps) /\ Len(projections) < MaxIncome
                     /\ \E payload \in ProjectionPayloads :
                           addProjection(payload) /\ NotSubscribed(SetViews)
  \/ Acted(MaxSteps) /\ \E id \in IdsOf(projections) :
                           removeProjection(id) /\ NotSubscribed(SetViews)

\* A queued microtask runs before the next task does.
SpecSaving == Init /\ [][NextSaving]_vars /\ WF_vars(Microtask)

(***************************************************************************)
(* The queue of the saves (src/unnamed/part_001, which subscribes to the   *)
(* five stores).  A queued microtask runs before the next task does, and   *)
(* the user acts in a task of their own; the backend answers a save_state  *)
(* call in a later task.                                                   *)
(***************************************************************************)
Queue == [saveScheduled |-> saveScheduled, microtasks |-> microtasks]

\* scheduleSave() that queues a microtask on every call once ready.
ScheduledEveryTime(ready, q) ==
  IF ~ready THEN q ELSE [saveScheduled |-> TRUE, microtasks |-> q.microtasks + 1]

\* scheduleSave() on the flag and the queue of microtasks.
Scheduled(ready, q) ==
  IF ~ready THEN q
  ELSE IF q.saveScheduled THEN q
  ELSE [saveScheduled |-> TRUE, microtasks |-> q.microtasks + 1]

RECURSIVE Notified(_, _, _)
\* The listeners of the stores called n times in one synchronous run.
Notified(n, ready, q) == IF n = 0 THEN q ELSE Notified(n - 1, ready, Scheduled(ready, q))

\* An operation of a store: every set() of it calls the listener.
Listening(views) ==
  /\ seen' = views
  /\ \E q \in {Notified(Len(views), persistenceReady, Queue)} :
        saveScheduled' = q.saveScheduled /\ microtasks' = q.microtasks
  /\ UNCHANGED <<persistenceReady, saveCall, inFlight>>

\* The microtask runs up to the await of invoke('save_state', ...).
saveMicrotask ==
  /\ microtasks > 0
  /\ microtasks' = microtasks - 1
  /\ saveScheduled' = FALSE
  /\ saveCall' = [made |-> TRUE, snapshot |-> getPersistedState,
                  state |-> Stringify(getPersistedState)]
  /\ inFlight' = Append(inFlight, Stringify(getPersistedState))
  /\ UNCHANGED <<entries, totals, usdRate, snapshots, categoryTotals, categoryHistory,
                 planHistory, now, nextId, lastOp, trail, metaIn, metaOut, ledgers, metrics,
                 payIn, payOut, persistenceReady, seen>>

\* The backend answers one of the calls it has; the microtask ends.
saveStateReturns ==
  /\ \E i \in 1..Len(inFlight) :
        inFlight' = SubSeq(inFlight, 1, i - 1) \o SubSeq(inFlight, i + 1, Len(inFlight))
  /\ UNCHANGED <<entries, totals, usdRate, snapshots, categoryTotals, categoryHistory,
                 planHistory, now, nextId, lastOp, trail, metaIn, metaOut, ledgers, metrics,
                 payIn, payOut, persistenceReady, saveScheduled, saveCall, seen, microtasks>>

\* initPersistence that ends without its call of scheduleSave.
initPersistenceWithoutSave(rawState) ==
  /\ ~persistenceReady
  /\ IF rawState.given THEN hydrateFromPersistedState(rawState.parsed)
     ELSE UNCHANGED <<entries, totals, usdRate, snapshots, categoryTotals, categoryHistory,
                      planHistory, now, nextId, lastOp, trail, metaIn, metaOut, ledgers,
                      metrics, payIn, payOut>>
  /\ persistenceReady' = TRUE
  /\ UNCHANGED <<saveScheduled, microtasks, saveCall, seen, inFlight>>

\* From the answer of load_state on: hydration, the subscriptions, ready, and
\* the first scheduleSave().
initPersistenceQueue(rawState) ==
  /\ ~persistenceReady
  /\ IF rawState.given THEN hydrateFromPersistedState(rawState.parsed)
     ELSE UNCHANGED <<entries, totals, usdRate, snapshots, categoryTotals, categoryHistory,
                      planHistory, now, nextId, lastOp, trail, metaIn, metaOut, ledgers,
                      metrics, payIn, payOut>>
  /\ persistenceReady' = TRUE
  /\ \E q \in {Scheduled(TRUE, Queue)} :
        saveScheduled' = q.saveScheduled /\ microtasks' = q.microtasks
  /\ UNCHANGED <<saveCall, seen, inFlight>>

QueueSteps == 3

\* One more operation of the user, in a task that starts with no microtask
\* queued.
Tasked(bound) ==
  /\ persistenceReady
  /\ microtasks = 0
  /\ steps < bound
  /\ steps' = steps + 1
  /\ UNCHANGED <<loop, undoing>>

NextQueue ==
  \/ \E rawState \in RawStates :
        initPersistenceQueue(rawState) /\ UNCHANGED <<steps, loop, undoing>>
  \/ saveMicrotask /\ UNCHANGED <<steps, loop, undoing>>
  \/ saveStateReturns /\ UNCHANGED <<steps, loop, undoing>>
  \/ Tasked(QueueSteps) /\ Len(entries) < MaxEntries
                        /\ addEntry([type |-> "Nakit"]) /\ Listening(CascadeViews)
  \/ Tasked(QueueSteps) /\ \E id \in IdsOf(entries), value \in {Text100, Text20000} :
                              updateEntry(id, "amount", value) /\ Listening(CascadeViews)
  \/ Tasked(QueueSteps) /\ \E value \in GoalTexts : setGoal(value) /\ Listening(RecalculateViews)
  \/ Tasked(QueueSteps) /\ Len(projections) < MaxIncome
                        /\ \E payload \in ProjectionPayloads :
                              addProjection(payload) /\ Listening(SetViews)

SpecQueue == Init /\ [][NextQueue]_vars

(***************************************************************************)
(* Properties of the totals.                                               *)
(***************************************************************************)
LedgerOps ==
  {"addEntry", "updateEntry", "removeEntry", "reorderEntries", "setUsdRate", "hydrate"}

\* C1: in every reachable state totals.netWorth is totals.assets minus
\* totals.debt.
NetWorthIsAssetsMinusDebt == totals.netWorth = FlSub(totals.assets, totals.debt)

\* A ledger operation has left assets and debts, and the net worth is their
\* difference.
NetWorthWitness ==
  /\ lastOp \in LedgerOps
  /\ IsFinite(totals.assets) /\ totals.assets > 0
  /\ IsFinite(totals.debt) /\ totals.debt > 0
  /\ totals.netWorth = totals.assets - totals.debt

\* C2: in every reachable state categoryTotals.cards + categoryTotals.debts is
\* totals.debt and categoryTotals.crypto + categoryTotals.assets is
\* totals.assets.
CategoryTotalsAddUp ==
  /\ FlAdd(categoryTotals.cards, categoryTotals.debts) = totals.debt
  /\ FlAdd(categoryTotals.crypto, categoryTotals.assets) = totals.assets

\* The bucket an entry of a type contributes to.
BucketOf(type) ==
  CASE type = "Kredi Karti" -> "cards"
    [] type = "Borç" -> "debts"
    [] type = "Kripto" -> "crypto"
    [] OTHER -> "assets"

\* What an entry contributes, given its converted amount and its resolved facility.
ContributionGiven(type, converted, resolved) ==
  CASE type = "Kredi Karti" -> IF resolved.null THEN 0 ELSE resolved.debt
    [] type = "Borç" -> IF resolved.null THEN converted ELSE resolved.debt
    [] OTHER -> converted

ContributionOfConverted(entry, converted) ==
  ContributionGiven(entry.type, converted, getCreditCardMeta(entry, converted))

ContributionOf(entry, rate) == ContributionOfConverted(entry, AmountInTl(entry, rate))

\* The contributions of the entries of some buckets, added up in ledger order.
RECURSIVE FreshFold(_, _, _)
FreshFold(es, rate, buckets) ==
  IF es = <<>> THEN 0
  ELSE IF BucketOf(es[Len(es)].type) \in buckets
    THEN FlAdd(FreshFold(SubSeq(es, 1, Len(es) - 1), rate, buckets),
               ContributionOf(es[Len(es)], rate))
  ELSE FreshFold(SubSeq(es, 1, Len(es) - 1), rate, buckets)

\* C3: the stored totals and categoryTotals are a fresh fold over the current
\* entries and rate, in which every entry contributes to the one bucket of its
\* type: a card its resolved debt or 0, a debt its resolved debt or else its
\* converted amount, a receivable, cash or crypto its converted amount.
TotalsAreFreshFold ==
  /\ totals.debt = FreshFold(entries, parseAmount(usdRate), {"cards", "debts"})
  /\ totals.assets = FreshFold(entries, parseAmount(usdRate), {"crypto", "assets"})
  /\ \A k \in CategoryKeys :
       categoryTotals[k] = FreshFold(entries, parseAmount(usdRate), {k})

\* An update has left two entries, one of them a card that owes.
FreshFoldWitness ==
  /\ lastOp = "updateEntry"
  /\ Len(entries) = 2
  /\ IsFinite(categoryTotals.cards) /\ categoryTotals.cards > 0
  /\ totals.debt = categoryTotals.cards

RecomputingOps == LedgerOps \cup {"init", "autoCalculateTotals"}

\* C4: a recomputation that follows a recomputation, the ledger and the rate
\* unchanged, leaves totals and categoryTotals as they are and appends no
\* point to a category series or to the plan series.
RecomputeAddsNothing ==
  [][(lastOp \in RecomputingOps /\ lastOp' = "autoCalculateTotals")
       => /\ totals' = totals
          /\ categoryTotals' = categoryTotals
          /\ categoryHistory' = categoryHistory
          /\ planHistory' = planHistory]_vars

(***************************************************************************)
(* Properties of the history series.                                       *)
(***************************************************************************)
Ascending(series) ==
  \A i \in 1..(Len(series) - 1) : series[i].capturedAt <= series[i + 1].capturedAt

\* C5: once more than MAX_CATEGORY_HISTORY values have been recorded for a
\* category, its series holds exactly MAX_CATEGORY_HISTORY points: the latest
\* values recorded, in the order they were recorded, each different from the
\* one before it.
LatestValuesKept ==
  \A k \in CategoryKeys :
    Len(trail[k]) > MAX_CATEGORY_HISTORY =>
      /\ Len(categoryHistory[k]) = MAX_CATEGORY_HISTORY
      /\ \A i \in 1..MAX_CATEGORY_HISTORY :
           categoryHistory[k][i].value = trail[k][Len(trail[k]) - MAX_CATEGORY_HISTORY + i]
      /\ \A i \in 1..(MAX_CATEGORY_HISTORY - 1) :
           categoryHistory[k][i].value # categoryHistory[k][i + 1].value
      /\ Ascending(categoryHistory[k])

\* The cash series after more changes than it holds, recorded before and
\* after the clock advanced.
LatestValuesWitness ==
  /\ lastOp = "updateEntry"
  /\ Len(trail["assets"]) > MAX_CATEGORY_HISTORY + 2
  /\ Len(categoryHistory["assets"]) = MAX_CATEGORY_HISTORY
  /\ categoryHistory["assets"][1].capturedAt < Last(categoryHistory["assets"]).capturedAt

\* C6: in every reachable state a category series has at most
\* MAX_CATEGORY_HISTORY points and the plan series at most MAX_PLAN_HISTORY.
SeriesWithinBounds ==
  /\ \A k \in CategoryKeys : Len(categoryHistory[k]) <= MAX_CATEGORY_HISTORY
  /\ Len(planHistory) <= MAX_PLAN_HISTORY

\* C7: in every reachable state every category series and the plan series are
\* in ascending order of capturedAt.
SeriesAscending ==
  /\ \A k \in CategoryKeys : Ascending(categoryHistory[k])
  /\ Ascending(planHistory)

\* The points of old, but for d evicted from the front, are the first points
\* of new; points are evicted only when one more point passes the bound.
KeptInPlace(old, new, bound) ==
  \E d \in 0..Len(old) :
    /\ d > 0 => Len(old) + 1 > bound
    /\ Len(new) >= Len(old) - d
    /\ \A i \in 1..(Len(old) - d) : new[i] = old[d + i]

\* C8: an operation other than removeCategoryPoint, clearCategoryHistory and
\* hydration leaves the points of every category series and of the plan series
\* unchanged and in place, but for points evicted from the front when the
\* bound is passed.
SeriesAppendOnly ==
  [][lastOp' \notin {"removeCategoryPoint", "clearCategoryHistory", "hydrate"}
       => /\ \A k \in CategoryKeys :
               KeptInPlace(categoryHistory[k], categoryHistory'[k], MAX_CATEGORY_HISTORY)
          /\ KeptInPlace(planHistory, planHistory', MAX_PLAN_HISTORY)]_vars

\* A card has been added to a full series: the oldest points are gone.
AppendOnlyWitness ==
  /\ lastOp = "addEntry"
  /\ Len(categoryHistory["cards"]) = MAX_CATEGORY_HISTORY
  /\ Len(trail["cards"]) > MAX_CATEGORY_HISTORY
  /\ Last(categoryHistory["cards"]).value = Last(trail["cards"])

(***************************************************************************)
(* Properties of the credit facility resolver and of the conversion.       *)
(***************************************************************************)
\* The name holds the key, whatever the case of its letters.
Mentions(name, key) ==
  \E i \in 0..(Len(name) - Len(key)) :
    \A j \in 1..Len(key) : LowerChar(name[i + j]) = key[j]

RegistryLimits(name) ==
  (IF Mentions(name, <<"q","n","b">>) THEN {282000} ELSE {}) \cup
  (IF Mentions(name, <<"a","k","b","a","n","k">>) THEN {31700} ELSE {})

DebtIsClamped(meta, available) ==
  /\ meta.debt = Max(FlSub(meta.limit, available), 0)
  /\ meta.debt >= 0

\* C9: getCreditCardMeta gives a card with a positive limit of its own that
\* limit, whatever its name; else an entry of any type whose name holds a
\* registry key, in any case, the limit of the registry (QNB 282000, Akbank
\* 31700); else null.  With a limit the debt is max(limit - available, 0).
ResolutionInTwoTiers ==
  lastOp = "getCreditCardMeta" =>
    IF metaIn.entry.type = "Kredi Karti" /\ parseAmount(metaIn.entry.creditLimit) > 0
      THEN /\ ~metaOut.null
           /\ metaOut.limit = parseAmount(metaIn.entry.creditLimit)
           /\ DebtIsClamped(metaOut, metaIn.availableAmountTl)
    ELSE IF RegistryLimits(metaIn.entry.name) # {}
      THEN /\ ~metaOut.null
           /\ metaOut.limit \in RegistryLimits(metaIn.entry.name)
           /\ DebtIsClamped(metaOut, metaIn.availableAmountTl)
    ELSE metaOut.null

\* A card named after an issuer with a limit of its own: the limit is its own.
TwoTiersWitness ==
  /\ lastOp = "getCreditCardMeta"
  /\ metaIn.entry.type = "Kredi Karti"
  /\ metaIn.entry.name = NameQnbKredi
  /\ metaIn.entry.creditLimit = Text10000
  /\ metaIn.availableAmountTl = 3000
  /\ metaOut.limit = 10000
  /\ metaOut.debt = 7000

Domestic(es) == SelectSeq(es, LAMBDA e : e.unit # "USD")

TotalsOf(sums) ==
  /\ totals.debt = sums.debt
  /\ totals.assets = sums.assets
  /\ categoryTotals = [cards |-> sums.cardDebt, debts |-> sums.otherDebt,
                       crypto |-> sums.cryptoAssets, assets |-> sums.assetAndReceivables]

\* C10: under a rate that is empty, zero, negative or unparseable the entries
\* in USD contribute 0: totals and categoryTotals are those of the other entries.
ForeignContributesNothingWithoutRate ==
  ~(parseAmount(usdRate) > 0) => TotalsOf(SumEntries(Domestic(entries), 0, ZeroSums))

(***************************************************************************)
(* Properties of the entries.                                              *)
(***************************************************************************)
\* C11: in every reachable state every crypto entry is in USD and every card
\* entry in TL.
UnitFollowsType ==
  \A i \in 1..Len(entries) :
    /\ entries[i].type = "Kripto" => entries[i].unit = "USD"
    /\ entries[i].type = "Kredi Karti" => entries[i].unit = "TL"

\* A crypto entry persisted in TL and a card persisted in USD have been hydrated.
UnitFollowsTypeWitness ==
  /\ lastOp = "hydrate"
  /\ \E i \in 1..Len(entries) : entries[i].id = 141 /\ entries[i].unit = "USD"
  /\ \E i \in 1..Len(entries) : entries[i].id = 142 /\ entries[i].unit = "TL"

\* C12: updateEntry(id, 'unit', u) on a debt, receivable or cash entry leaves
\* the entry with unit u.
UnitIsTheUsersChoice ==
  [][\A i \in 1..Len(entries), u \in Units :
       (/\ entries[i].type \in {"Borç", "Alacak", "Nakit"}
        /\ updateEntry(entries[i].id, "unit", u))
         => entries'[i].unit = u]_vars

\* C13: a remove or a reorder addressed to an id that no record carries is a
\* no-op: the ledger, the totals and every history series are left as they
\* were, also after a series was cleared or lost its newest point.
StoreState ==
  <<entries, totals, usdRate, snapshots, categoryTotals, categoryHistory, planHistory>>

AddressedToUnknownId ==
  \/ removeEntry(0)
  \/ \E fromId \in IdsOf(entries) : reorderEntries(fromId, 0)
  \/ \E k \in CategoriesTried : removeCategoryPoint(k, 0)

ReferentialMissIsNoOp ==
  [][AddressedToUnknownId => UNCHANGED StoreState]_vars

LargerOf(a, b) == IF Greater(a, b) THEN a ELSE b

\* C18: the monthly saving target is the part of the goal that the net worth
\* has not reached, never less than 0, divided by the plan duration in months,
\* and it is 0 once the net worth has reached the goal.
SavingTargetIsRemainderOverDuration ==
  /\ metrics.monthlySavingTarget =
       FlDivRatio(LargerOf(FlSub(parseAmount(planning.goal), totals.netWorth), 0),
                  metrics.planDurationMonths)
  /\ GreaterOrEqual(totals.netWorth, parseAmount(planning.goal))
       => metrics.monthlySavingTarget = 0

SavingTargetWitness ==
  /\ lastOp = "hydrate"
  /\ parseAmount(planning.goal) = 120000
  /\ totals.netWorth = 20000
  /\ metrics.planDurationMonths = [num |-> 5, den |-> 1]
  /\ metrics.monthlySavingTarget = 20000

\* income - fixedTotal, and what is left of it after the saving target
AvailableIncome == FlSub(parseAmount(planning.monthlyIncome), FixedTotal(planning.expenses))
LeftAfterTarget(available) == FlSub(available, metrics.monthlySavingTarget)

\* C19: the plan is feasible exactly when the saving target does not exceed
\* income minus fixed expenses, the shortfall is the amount by which it does,
\* and the weekly limit is 0 when nothing is left.
FeasibleWhenTargetFits ==
  /\ metrics.planFeasible <=> ~Greater(metrics.monthlySavingTarget, AvailableIncome)
  /\ metrics.flexibleSpending = LeftAfterTarget(AvailableIncome)
  /\ metrics.monthlyShortfall = LargerOf(Negated(LeftAfterTarget(AvailableIncome)), 0)
  /\ GreaterOrEqual(0, metrics.flexibleSpending) => metrics.weeklyLimit = 0

FeasibleWitness ==
  /\ lastOp = "hydrate"
  /\ metrics.incomeValue = 30000
  /\ metrics.fixedTotal = 10000
  /\ metrics.monthlySavingTarget = 20000
  /\ metrics.flexibleSpending = 0
  /\ metrics.monthlyShortfall = 0
  /\ metrics.planFeasible
  /\ metrics.weeklyLimit = 0

\* C15: hydration leaves a field that the persisted state does not carry at
\* the value the store holds; here the goal, the income, the fixed expenses
\* and the target mode of a planning section that lacks them.
AbsentFieldsAreKept ==
  [][\A p \in PlanningPersisted :
       (hydrateFromPersistedState(p) /\ Has(p, "planning"))
         => \A f \in {"goal", "monthlyIncome", "expenses", "targetMode"} :
              Has(p.planning, f) \/ planning'[f] = planning[f]]_vars

\* C16: saving, loading what was saved and saving again gives the first save
\* back: no history point is added or lost on the way.
RoundTripIsStable ==
  [][hydrateFromPersistedState(getPersistedState)
       => getPersistedState' = getPersistedState]_vars

HasId(list) == \A i \in 1..Len(list) : Has(list[i], "id")

\* C17: after hydration every record of every ledger carries an id.
EveryRecordHasId ==
  lastOp = "hydrate"
    => /\ HasId(entries) /\ HasId(snapshots) /\ HasId(planHistory)
       /\ \A k \in CategoryKeys : HasId(categoryHistory[k])
       /\ HasId(spending) /\ HasId(extraIncome) /\ HasId(projections)

\* The points of the series that are pay days, in their order.
PayDays == SelectSeq(payOut, LAMBDA point : point.kind = "payDay")

\* The smaller of the income day and the number of days of the date's month.
DayWithinMonth(date, incomeDay) ==
  IF incomeDay < DaysInMonth(date.year, date.month) THEN incomeDay
  ELSE DaysInMonth(date.year, date.month)

\* The months from one date's month to another's.
MonthsBetween(a, b) == (b.year * 12 + b.month) - (a.year * 12 + a.month)

\* C20: the k-th pay day of the projection is in the k-th calendar month
\* counted from the first pay day, on the income day clamped to the length
\* of that month: no month is skipped and each month is clamped for itself.
PaydayClampedPerMonth ==
  lastOp = "buildPaydayPlanSeries"
    => \A k \in 1..Len(PayDays) :
          /\ MonthsBetween(PayDays[1].date, PayDays[k].date) = k - 1
          /\ PayDays[k].date.day = DayWithinMonth(PayDays[k].date, payIn.incomeDay)

PaydayClampedWitness ==
  /\ lastOp = "buildPaydayPlanSeries"
  /\ payIn.incomeDay = 31
  /\ \E k \in 1..(Len(PayDays) - 1) :
       /\ PayDays[k].date = MakeDate(2024, 3, 30)
       /\ PayDays[k + 1].date = MakeDate(2024, 4, 31)
(***************************************************************************)
(* Properties of the recompute cascade and of saving.                      *)
(***************************************************************************)
\* The totals of a view are those of its entries and rate, and its metrics
\* those of its net worth.
ViewIsWhole(view) ==
  /\ view.totals.debt = FreshFold(view.entries, parseAmount(view.usdRate), {"cards", "debts"})
  /\ view.totals.assets = FreshFold(view.entries, parseAmount(view.usdRate), {"crypto", "assets"})
  /\ \A k \in CategoryKeys :
       view.categoryTotals[k] = FreshFold(view.entries, parseAmount(view.usdRate), {k})
  /\ view.metrics.remainingGoal = FlSub(view.metrics.goalValue, view.totals.netWorth)

\* C21: no reader, a listener called while an operation is in progress
\* included, reads the stores with entries or a rate the totals do not match,
\* or with totals whose net worth the metrics do not reflect.
CascadeIsAtomicForReaders == \A i \in 1..Len(seen) : ViewIsWhole(seen[i])

\* C22: after every operation the metrics are those a recalculation gives from
\* the current planning inputs, spending ledger and net worth, at the clock
\* reading of the operation that recalculated last; metrics.remainingGoal is
\* the parsed goal minus the current totals.netWorth.
MetricsAreFresh ==
  /\ \E t \in 1..now : metrics = recalculate(planning, spending, totals.netWorth, t)
  /\ metrics.remainingGoal = FlSub(parseAmount(planning.goal), totals.netWorth)

\* An update of the ledger has raised the net worth under a goal, and the
\* remaining goal follows it.
MetricsFreshWitness ==
  /\ lastOp = "updateEntry"
  /\ parseAmount(planning.goal) = 120000
  /\ totals.netWorth = 30000
  /\ metrics.remainingGoal = 90000

\* The finance section of a snapshot is whole: the category totals are the
\* fold over its entries and rate, every category series ends with the total
\* of its category, and the plan series with the net worth, to 0.01.
FinanceIsWhole(f) ==
  /\ \A k \in CategoryKeys :
       /\ f.categoryTotals[k] = FreshFold(f.entries, parseAmount(f.usdRate), {k})
       /\ f.categoryHistory[k] # <<>>
       /\ Last(f.categoryHistory[k]).value = f.categoryTotals[k]
  /\ f.planHistory # <<>>
  /\ ~PlanPointDue(f.planHistory,
                   NetWorth(FreshFold(f.entries, parseAmount(f.usdRate), {"crypto", "assets"}),
                            FreshFold(f.entries, parseAmount(f.usdRate), {"cards", "debts"})))

\* C24: the snapshot a deferred save serializes is consistent with the latest
\* mutation: its categoryTotals are the fold over its entries and usdRate, and
\* its history series hold the points the latest mutation caused.
SavedSnapshotIsWhole == saveCall.made => FinanceIsWhole(saveCall.snapshot.finance)

\* A save has fired after an update that changed the assets, and holds the
\* new total and its point.
SavedSnapshotWitness ==
  /\ saveCall.made
  /\ ~saveScheduled
  /\ lastOp = "updateEntry"
  /\ saveCall.snapshot.finance.entries = entries
  /\ saveCall.snapshot.finance.categoryTotals.assets = 100
  /\ Len(saveCall.snapshot.finance.categoryHistory.assets) = 2

\* save_state was last invoked with the stores as they are now.
StoresAreSaved == saveCall.made /\ saveCall.state = Stringify(getPersistedState)

\* C25: once persistence is ready, every mutation of the finance, planning,
\* expense, extra income or projection store is eventually followed by a
\* save_state call whose snapshot contains it.
MutationsAreEventuallySaved == persistenceReady ~> StoresAreSaved

(***************************************************************************)
(* Properties of a recomputation's points.                                 *)
(***************************************************************************)
\* new is old with one point of the value, taken at the time, at its end, but
\* for points evicted from the front when the bound is passed.
OnePointAppended(old, new, value, time, bound) ==
  /\ new # <<>>
  /\ Last(new).value = value
  /\ Last(new).capturedAt = time
  /\ \E d \in 0..Len(old) :
       /\ d > 0 => Len(old) + 1 > bound
       /\ SubSeq(new, 1, Len(new) - 1) = SubSeq(old, d + 1, Len(old))

\* The operations that are a totals recomputation on the stored series.
RecomputationsInPlace ==
  {"addEntry", "updateEntry", "removeEntry", "reorderEntries", "setUsdRate",
   "autoCalculateTotals"}

\* The plan series is empty or its newest value is 0.01 or more away from the
\* net worth.
PlanValueDiffers(plan, netWorth) ==
  plan = <<>> \/ GreaterOrEqual(Abs(FlSub(Last(plan).value, netWorth)), 1)

\* C27: a totals recomputation appends exactly one point to a category series
\* that is empty or whose newest value differs from the computed total, and
\* leaves the series unchanged otherwise; it appends one point to the plan
\* series if that is empty or its newest value is 0.01 or more away from the
\* computed net worth, and leaves it unchanged otherwise.
RecomputationAppendsOnce ==
  [][(lastOp' \in RecomputationsInPlace /\ now' = now)
       => /\ \A k \in CategoryKeys :
               IF categoryHistory[k] = <<>> \/ Last(categoryHistory[k]).value # categoryTotals'[k]
               THEN OnePointAppended(categoryHistory[k], categoryHistory'[k],
                                     categoryTotals'[k], now, MAX_CATEGORY_HISTORY)
               ELSE categoryHistory'[k] = categoryHistory[k]
          /\ IF PlanValueDiffers(planHistory, totals'.netWorth)
             THEN OnePointAppended(planHistory, planHistory', ToFixed2(totals'.netWorth),
                                   now, MAX_PLAN_HISTORY)
             ELSE planHistory' = planHistory]_vars

\* C28: in every reachable state no category series holds two consecutive
\* points of the same value, also after removeCategoryPoint deleted a point
\* between two others.
CategoryHistoryDeduplicated ==
  \A k \in CategoryKeys :
    \A i \in 1..(Len(categoryHistory[k]) - 1) :
      categoryHistory[k][i].value # categoryHistory[k][i + 1].value

(***************************************************************************)
(* Properties of the spending, extra income and projection ledgers.        *)
(***************************************************************************)
\* The records are in the order of their days, ascending or descending, and
\* of two records of one day the one created later comes first.
InStableOrder(list, key) ==
  /\ \/ \A i, j \in 1..Len(list) : i < j => list[i][key] >= list[j][key]
     \/ \A i, j \in 1..Len(list) : i < j => list[i][key] <= list[j][key]
  /\ \A i, j \in 1..Len(list) :
       (i < j /\ list[i][key] = list[j][key]) => list[i].createdAt >= list[j].createdAt

\* C26: after any add, update, remove or bulk set the spending, extra income
\* and projection ledgers are each sorted by date, the most recently created
\* first among the records of one date.
LedgersInStableOrder ==
  /\ InStableOrder(spending, "date")
  /\ InStableOrder(extraIncome, "date")
  /\ InStableOrder(projections, "expectedDate")

(***************************************************************************)
(* Properties of the snapshots.                                            *)
(***************************************************************************)
\* The snapshots a step removed.
RemovedSnapshots == {snapshots[i] : i \in 1..Len(snapshots)} \ {snapshots'[i] : i \in 1..Len(snapshots')}

\* C23: restoreSnapshot of the snapshot a removeSnapshot removed gives the list
\* its content and order before the removal, with that id once, in ascending
\* order of capturedAt.
UndoRestoresSnapshotList ==
  [][lastOp' = "removeSnapshot"
       => \A removed \in RemovedSnapshots :
             SnapshotsRestored(snapshots', removed, nextId', now') = snapshots]_vars

(***************************************************************************)
(* Properties of the plan duration.                                        *)
(***************************************************************************)
\* max(days from nowTime to the target date / 30.4375, 1) as a ratio, and 4
\* for a target date that is absent or does not parse.
DurationToDate(targetDateValue, nowTime) ==
  IF ~targetDateValue.valid THEN [num |-> 4, den |-> 1]
  ELSE IF (targetDateValue.time - nowTime) * DAYS_PER_MONTH.den >= DAYS_PER_MONTH.num
    THEN [num |-> (targetDateValue.time - nowTime) * DAYS_PER_MONTH.den,
          den |-> DAYS_PER_MONTH.num]
  ELSE [num |-> 1, den |-> 1]

\* C29: in date mode metrics.planDurationMonths is never below one month: it
\* is max(days from today to the target date / 30.4375, 1), so 1 for a target
\* date less than a month ahead or in the past, and with an absent or
\* unparseable target date it is 4 and plannedCompletionDate is null.
DateModeDurationAtLeastOneMonth ==
  planning.targetMode = "date" =>
    /\ metrics.planDurationMonths.num >= metrics.planDurationMonths.den
    /\ \E t \in 1..now : metrics.planDurationMonths = DurationToDate(planning.targetDate, t)
    /\ ~planning.targetDate.valid => metrics.plannedCompletionDate = NullDateText

(***************************************************************************)
(* Properties of the first pay day.                                        *)
(***************************************************************************)
\* The first day of the month after the date's.
MonthAfter(date) ==
  IF date.month = 11 THEN MakeDate(date.year + 1, 0, 1) ELSE MakeDate(date.year, date.month + 1, 1)

\* The income day within the month of today when today is not later than it,
\* and within the month after otherwise.
FirstPayDay(today, incomeDay) ==
  IF today.day <= DayWithinMonth(today, incomeDay)
  THEN MakeDate(today.year, today.month, DayWithinMonth(today, incomeDay))
  ELSE MakeDate(MonthAfter(today).year, MonthAfter(today).month,
                DayWithinMonth(MonthAfter(today), incomeDay))

\* C30: the first pay day of the projection is in the current month when
\* today's day of month is not later than the income day clamped to the
\* current month (today itself when they are equal), and in the next month,
\* clamped to that month's length, otherwise.
FirstPayDayThisMonthOrNext ==
  lastOp = "buildPaydayPlanSeries"
    => /\ resolveIncomeDate(payIn.today, IncomeDaySafe(payIn.incomeDay), 1)
            = FirstPayDay(payIn.today, payIn.incomeDay)
       /\ Len(PayDays) > 0 => PayDays[1].date = FirstPayDay(payIn.today, payIn.incomeDay)
       /\ (Len(PayDays) > 0 /\ payIn.today.day = DayWithinMonth(payIn.today, payIn.incomeDay))
            => PayDays[1].date = payIn.today

FirstPayDayWitness ==
  /\ lastOp = "buildPaydayPlanSeries"
  /\ payIn.today = MakeDate(2023, 0, 31)
  /\ payIn.incomeDay = 30
  /\ Len(PayDays) > 0
  /\ PayDays[1].date = MakeDate(2023, 1, 28)

(***************************************************************************)
(* Properties of the points of the pay day series.                         *)
(***************************************************************************)
\* C31: every pay cycle that ends before the end date, a first cycle whose
\* pay day is today or tomorrow included, gives two points: one before the
\* income, worth the net worth at the start of the cycle less the spend of
\* the cycle, then one on the pay day, worth that plus the monthly income.
EveryCycleHasTwoPoints ==
  lastOp = "buildPaydayPlanSeries"
    => \A i \in 1..Len(payOut) :
         payOut[i].kind = "payDay"
           => /\ i >= 3
              /\ payOut[i - 1].kind = "beforeIncome"
              /\ payOut[i - 2].kind \in {"start", "payDay"}
              /\ payOut[i - 1].baseline = FlSub(payOut[i - 2].baseline, payIn.plannedMonthlySpend)
              /\ payOut[i].baseline = FlAdd(payOut[i - 1].baseline, payIn.monthlyIncome)

\* The plan's end date: the completion date when one is given that is after
\* today, else today plus the horizon in months.
PlanEnd ==
  IF payIn.plannedCompletion.given /\ DateBefore(payIn.today, payIn.plannedCompletion.date)
  THEN payIn.plannedCompletion.date
  ELSE addMonths(payIn.today, payIn.monthsAhead)

\* The pay day that follows the pay days of the series.
NextDue == resolveIncomeDate(payIn.today, payIn.incomeDay, Len(PayDays) + 1)

\* spend * elapsed / whole, the spend of the elapsed part of a cycle
SpendOfPart(spend, elapsed, whole) == FlDivRatio(spend, [num |-> whole, den |-> elapsed])

\* C32: the trajectory runs until the plan's end date: when the end date is
\* at most 240 pay cycles away, the last point is dated at the end date, its
\* value is the net worth after the last deposit less the monthly spend times
\* the elapsed fraction of the unfinished cycle, and no point is dated after
\* the end date.
TrajectoryRunsToEndDate ==
  (lastOp = "buildPaydayPlanSeries" /\ MonthsBetween(payIn.today, PlanEnd) < MAX_CYCLES)
    => /\ Len(payOut) >= 2
       /\ Last(payOut).date = PlanEnd
       /\ Last(payOut).baseline
            = FlSub(payOut[Len(payOut) - 1].baseline,
                    SpendOfPart(payIn.plannedMonthlySpend,
                                DayNumber(PlanEnd) - DayNumber(payOut[Len(payOut) - 1].date),
                                DayNumber(NextDue) - DayNumber(payOut[Len(payOut) - 1].date)))
       /\ \A i \in 1..Len(payOut) : ~DateBefore(PlanEnd, payOut[i].date)

\* C33: buildPaydayPlanSeries returns for every input, horizons, income days
\* and completion dates that are not finite or not positive included, after
\* at most 240 runs of the loop's body, with at most 1 + 2 * 240 points.
SeriesTerminates ==
  /\ [](/\ Len(payOut) <= 1 + 2 * MAX_CYCLES
        /\ loop.running => loop.cycleIndex <= MAX_CYCLES + 1)
  /\ <>(lastOp = "buildPaydayPlanSeries")

SeriesTerminatesWitness ==
  /\ lastOp = "buildPaydayPlanSeries"
  /\ ~loop.running
  /\ loop.cycleIndex = MAX_CYCLES + 1
  /\ Len(payOut) = 1 + 2 * MAX_CYCLES
  /\ payIn.monthsAhead = 300

UndoIsSingleStep ==
  [][steps' # steps
       => /\ lastOp' = "restoreSnapshot"
               => /\ removals # <<>>
                  /\ undoSnapshot = <<Last(removals)>>
                  /\ IdsOf(snapshots') = IdsOf(snapshots) \cup {Last(removals).id}
                  /\ undoSnapshot' = <<>>
          /\ lastOp' = "undoIgnored" => (undoSnapshot = <<>> /\ snapshots' = snapshots)]_vars

UndoIsSingleStepWitness ==
  /\ lastOp = "restoreSnapshot"
  /\ Len(removals) = 2
  /\ removals[1].id = 151
  /\ removals[2].id = 153
  /\ IdsOf(snapshots) = {152, 153}
  /\ undoSnapshot = <<>>

(***************************************************************************)
(* Properties of the queue of the saves.                                   *)
(***************************************************************************)
\* The totals and the metrics are those of the entries and the plan held.
Recomputed ==
  /\ TotalsAreFreshFold
  /\ totals.netWorth = FlSub(totals.assets, totals.debt)
  /\ metrics = recalculate(planning, spending, totals.netWorth, now)

\* C36: no save is issued before the state is ready: until initPersistence
\* has loaded and hydrated the state, with the totals and the metrics
\* recomputed, no save is scheduled and save_state is not called; once it is
\* ready exactly one save is scheduled, and the first save hands over the
\* recomputed state.
NoSaveBeforeReady ==
  /\ [](~persistenceReady
          => ~saveScheduled /\ microtasks = 0 /\ inFlight = <<>> /\ ~saveCall.made)
  /\ [](persistenceReady => Recomputed)
  /\ [][(~persistenceReady /\ persistenceReady')
          => /\ saveScheduled' /\ microtasks' = 1
             /\ inFlight' = <<>> /\ ~saveCall'.made]_vars
  /\ [][(~saveCall.made /\ saveCall'.made)
          => /\ persistenceReady
             /\ saveCall'.snapshot = getPersistedState]_vars

\* The stored plan has been hydrated, and the one save is queued and not run.
NoSaveBeforeReadyWitness ==
  /\ persistenceReady
  /\ lastOp = "hydrate"
  /\ metrics.incomeValue = 30000
  /\ totals.netWorth = 20000
  /\ saveScheduled /\ microtasks = 1
  /\ ~saveCall.made

\* C37: saves are coalesced: at most one save microtask is queued at any time,
\* and an operation whose set calls notify the listener several times leaves
\* exactly one microtask, hence one call of persistState.
SavesAreCoalesced ==
  /\ [](microtasks <= 1)
  /\ [][steps' # steps => (seen' # <<>> /\ microtasks = 0 /\ microtasks' = 1)]_vars
  /\ [][saveCall' # saveCall => (microtasks = 1 /\ microtasks' = 0 /\ ~saveScheduled')]_vars

\* An update has notified the listener three times and one microtask is queued.
SavesAreCoalescedWitness ==
  /\ lastOp = "updateEntry"
  /\ Len(seen) = 3
  /\ saveScheduled /\ microtasks = 1

\* C38: saves never overlap or overtake each other: at most one save_state
\* call is in flight at any time, and with no microtask queued the state
\* handed to the backend last is the state the stores hold.
SavesNeverOverlap ==
  /\ Len(inFlight) <= 1
  /\ (saveCall.made /\ microtasks = 0) => saveCall.state = Stringify(getPersistedState)

(***************************************************************************)
(* Properties of the sign of the totals.                                   *)
(***************************************************************************)
\* C39: in every reachable state totals.debt, totals.assets and the four
\* categoryTotals are at least 0, whatever amounts and credit limits the
\* entries hold.
TotalsAreNonNegative ==
  /\ GreaterOrEqual(totals.debt, 0)
  /\ GreaterOrEqual(totals.assets, 0)
  /\ \A k \in CategoryKeys : GreaterOrEqual(categoryTotals[k], 0)

(***************************************************************************)
(* Properties of the order of the entries.                                 *)
(***************************************************************************)
\* How often an entry occurs in a list.
Occurrences(list, entry) == Cardinality({i \in 1..Len(list) : list[i] = entry})

IsPermutation(a, b) ==
  /\ Len(a) = Len(b)
  /\ \A i \in 1..Len(a) : Occurrences(a, a[i]) = Occurrences(b, a[i])

HistoriesUnchanged == categoryHistory' = categoryHistory /\ planHistory' = planHistory

\* C40: reorderEntries(fromId, toId) with both ids present gives a
\* permutation of the entries in which the moved entry has the index the
\* target had and the other entries keep their order; it leaves the totals
\* and the categoryTotals as they are and appends no history point, and with
\* fromId = toId it changes nothing.
ReorderOnlyMoves ==
  [][\A fromId \in IdsOf(entries), toId \in IdsOf(entries) :
       reorderEntries(fromId, toId)
         => /\ IsPermutation(entries', entries)
            /\ entries'[FindIndex(entries, toId)] = entries[FindIndex(entries, fromId)]
            /\ RemoveAt(entries', FindIndex(entries, toId))
                 = RemoveAt(entries, FindIndex(entries, fromId))
            /\ totals' = totals
            /\ categoryTotals' = categoryTotals
            /\ HistoriesUnchanged
            /\ fromId = toId => entries' = entries]_vars

====
